---- MODULE Spec2Model ----
(***************************************************************************)
(* Model of the README generator backend: the conflict detector            *)
(* (services/conflictDetector.ts), the tests planner                       *)
(* (services/testsPlanner.ts) and the routes that call them, and the       *)
(* generation route (routes/generate.ts) with the result store             *)
(* (routes/result.ts), the README builder and the persistence it calls.    *)
(*                                                                         *)
(* A ProjectSpec is a record with the fields the services read.  A JS      *)
(* value that may be null or undefined is a tagged record, so that a       *)
(* missing nested object can be told apart from a present one.             *)
(***************************************************************************)
EXTENDS Integers, Sequences, FiniteSets, TLC

VARIABLES project, pc, result, reply,
          requests, resultStorage, firestore, now, apiKey

vars == <<project, pc, result, reply,
          requests, resultStorage, firestore, now, apiKey>>

\* The state of the service calls, and the state of the generation route
serviceVars == <<project, pc, result, reply>>
generateVars == <<requests, resultStorage, firestore, now, apiKey>>

(***************************************************************************)
(* Bounds of the explored inputs.                                          *)
(***************************************************************************)
MaxRoles == 1
MaxFeatures == 2
MaxEntities == 2
MaxClock == 1
MaxEndpoints == 2

(***************************************************************************)
(* JavaScript values.                                                      *)
(***************************************************************************)
Null == [t |-> "null"]
Undefined == [t |-> "undefined"]
Str(s) == [t |-> "string", v |-> s]

\* An array in a position where the body may hold null or nothing instead
\* (endpoints, an entity's fields and relations); the other arrays are
\* plain sequences
Arr(items) == [t |-> "array", items |-> items]

Nullish(v) == v = Null \/ v = Undefined

\* !v for a value of type string | null (or a missing one)
Falsy(v) == v = Null \/ v = Undefined \/ v = Str("")

\* Array.prototype.includes
Includes(arr, x) == \E i \in 1..Len(arr) : arr[i] = x

\* The TypeError V8 raises when a property of null/undefined is read
TypeError(v, prop) == [threw |-> "TypeError", of |-> v.t, reading |-> prop]

Threw(r) == "threw" \in DOMAIN r

\* A value returned by a call that may also raise
Ret(v) == [val |-> v]

(***************************************************************************)
(* types/project.ts                                                        *)
(***************************************************************************)
ProjectStackType == {"frontend", "backend", "fullstack"}
ApiType == {"rest", "graphql", "none"}
ArchitectureType == {"monolith", "microservices", "serverless", "event-driven"}

defaultProject ==
  [ stack |-> [ type |-> "fullstack",
                database |-> [type |-> Null],
                architecture |-> "monolith" ],
    auth |-> [ enabled |-> FALSE,
               methods |-> <<>>,
               roles |-> <<>>,
               security |-> [passwordPolicy |-> Null, rateLimiting |-> FALSE] ],
    features |-> <<>>,
    entities |-> <<>>,
    api |-> [type |-> "none", endpoints |-> Arr(<<>>), documentation |-> "none"],
    tests |-> [unit |-> TRUE, integration |-> FALSE, e2e |-> FALSE,
               manualChecklists |-> TRUE],
    deployment |-> [ci |-> [enabled |-> FALSE]],
    documentation |-> [readmeFormat |-> "full"],
    aiFiles |-> [copilot |-> [enabled |-> TRUE]],
    integrity |-> [conflicts |-> <<>>, warnings |-> <<>>, suggestions |-> <<>>],
    meta |-> [projectName |-> Str(""), summary |-> Str("")] ]

\* Conflict { type, code, message, suggestion }
Conflict(type, code, message, suggestion) ==
  [type |-> type, code |-> code, message |-> message, suggestion |-> suggestion]

EmptyIntegrity == [conflicts |-> <<>>, warnings |-> <<>>, suggestions |-> <<>>]

(***************************************************************************)
(* services/conflictDetector.ts: detectConflicts.  Rule n takes the spec   *)
(* and the buckets built by rules 1..n-1 (or the exception already         *)
(* raised) and returns the buckets after rule n.                           *)
(***************************************************************************)
PushConflict(r, c) == [r EXCEPT !.conflicts = Append(@, c)]
PushWarning(r, c) == [r EXCEPT !.warnings = Append(@, c)]
PushSuggestion(r, c) == [r EXCEPT !.suggestions = Append(@, c)]

\* Rule 1 with the roles test left out
Rule1_IgnoresRoles(p, r) ==
  IF Threw(r) THEN r
  ELSE IF Nullish(p.auth) THEN TypeError(p.auth, "enabled")
  ELSE IF p.auth.enabled
       THEN PushConflict(r, Conflict("error", "AUTH_NO_ROLES",
              "Authentication is enabled but no roles are defined",
              "Add at least one role (e.g., admin, user, guest)"))
       ELSE r

\* Rule 1: Auth enabled but no roles defined
Rule1(p, r) ==
  IF Threw(r) THEN r
  ELSE IF Nullish(p.auth) THEN TypeError(p.auth, "enabled")
  ELSE IF p.auth.enabled /\ Len(p.auth.roles) = 0
       THEN PushConflict(r, Conflict("error", "AUTH_NO_ROLES",
              "Authentication is enabled but no roles are defined",
              "Add at least one role (e.g., admin, user, guest)"))
       ELSE r

\* Rule 2 with passwordPolicy === null in place of !passwordPolicy
Rule2_StrictNull(p, r) ==
  IF Threw(r) THEN r
  ELSE IF Nullish(p.auth) THEN TypeError(p.auth, "enabled")
  ELSE IF p.auth.enabled /\ Includes(p.auth.methods, "email/password")
       THEN IF Nullish(p.auth.security)
            THEN TypeError(p.auth.security, "passwordPolicy")
            ELSE IF p.auth.security.passwordPolicy = Null
                 THEN PushSuggestion(r, Conflict("warning", "AUTH_NO_POLICY",
                        "Email/password authentication enabled without password policy",
                        "Define a password policy (minimum length, complexity requirements, etc.)"))
                 ELSE r
       ELSE r

\* Rule 2: Auth methods but no password policy
Rule2(p, r) ==
  IF Threw(r) THEN r
  ELSE IF Nullish(p.auth) THEN TypeError(p.auth, "enabled")
  ELSE IF p.auth.enabled /\ Includes(p.auth.methods, "email/password")
       THEN IF Nullish(p.auth.security)
            THEN TypeError(p.auth.security, "passwordPolicy")
            ELSE IF Falsy(p.auth.security.passwordPolicy)
                 THEN PushSuggestion(r, Conflict("warning", "AUTH_NO_POLICY",
                        "Email/password authentication enabled without password policy",
                        "Define a password policy (minimum length, complexity requirements, etc.)"))
                 ELSE r
       ELSE r

\* Rule 3 with stack.type !== 'backend' in place of === 'frontend'
Rule3_NotBackend(p, r) ==
  IF Threw(r) THEN r
  ELSE IF p.api.type # "none" /\ p.stack.type # "backend"
       THEN PushWarning(r, Conflict("warning", "API_NO_BACKEND",
              "API is configured but stack type is frontend-only",
              "Either change stack type to fullstack/backend or disable API"))
       ELSE r

\* Rule 3: API without backend
Rule3(p, r) ==
  IF Threw(r) THEN r
  ELSE IF p.api.type # "none" /\ p.stack.type = "frontend"
       THEN PushWarning(r, Conflict("warning", "API_NO_BACKEND",
              "API is configured but stack type is frontend-only",
              "Either change stack type to fullstack/backend or disable API"))
       ELSE r

\* Rule 4 with the entities test left out
Rule4_IgnoresEntities(p, r) ==
  IF Threw(r) THEN r
  ELSE IF Len(p.features) > 0
       THEN PushSuggestion(r, Conflict("warning", "FEATURES_NO_ENTITIES",
              "Features are defined but no entities exist",
              "Consider adding entities to support these features"))
       ELSE r

\* Rule 4: Features but no entities
Rule4(p, r) ==
  IF Threw(r) THEN r
  ELSE IF Len(p.features) > 0 /\ Len(p.entities) = 0
       THEN PushSuggestion(r, Conflict("warning", "FEATURES_NO_ENTITIES",
              "Features are defined but no entities exist",
              "Consider adding entities to support these features"))
       ELSE r

\* Rule 5 with api.type !== 'none' in place of === 'none'
Rule5_ApiPresent(p, r) ==
  IF Threw(r) THEN r
  ELSE IF p.tests.e2e /\ p.api.type # "none"
       THEN PushSuggestion(r, Conflict("warning", "E2E_NO_API",
              "End-to-end tests are enabled but no API is configured",
              "Either add an API or disable E2E tests"))
       ELSE r

\* Rule 5: E2E tests without API
Rule5(p, r) ==
  IF Threw(r) THEN r
  ELSE IF p.tests.e2e /\ p.api.type = "none"
       THEN PushSuggestion(r, Conflict("warning", "E2E_NO_API",
              "End-to-end tests are enabled but no API is configured",
              "Either add an API or disable E2E tests"))
       ELSE r

\* Rule 6: Multiple entities but no backend
Rule6(p, r) ==
  IF Threw(r) THEN r
  ELSE IF Len(p.entities) > 1 /\ p.stack.type = "frontend"
       THEN PushWarning(r, Conflict("warning", "ENTITIES_NO_BACKEND",
              "Multiple entities defined in frontend-only project",
              "Consider using a backend to manage these entities"))
       ELSE r

\* project.entities.some((e) => e.relations.length > 0), from index i on:
\* Ret(BOOLEAN), or the TypeError raised on an entity without relations
RECURSIVE hasRelations(_, _)
hasRelations(entities, i) ==
  IF i > Len(entities) THEN Ret(FALSE)
  ELSE IF Nullish(entities[i].relations)
       THEN TypeError(entities[i].relations, "length")
       ELSE IF Len(entities[i].relations.items) > 0 THEN Ret(TRUE)
            ELSE hasRelations(entities, i + 1)

\* Rule 7 pushing one issue per entity that has relations
RECURSIVE PushPerRelatedEntity(_, _, _)
PushPerRelatedEntity(entities, i, r) ==
  IF i > Len(entities) THEN r
  ELSE PushPerRelatedEntity(entities, i + 1,
         IF Len(entities[i].relations.items) > 0
         THEN PushWarning(r, Conflict("warning", "RELATIONS_NO_BACKEND",
                "Entity relations defined in frontend-only project",
                "Add a backend to properly handle entity relationships"))
         ELSE r)

Rule7_PerEntity(p, r) ==
  IF Threw(r) THEN r
  ELSE LET h == hasRelations(p.entities, 1) IN
       IF Threw(h) THEN h
       ELSE IF h.val /\ p.stack.type = "frontend"
            THEN PushPerRelatedEntity(p.entities, 1, r)
            ELSE r

\* Rule 7: Relations without backend
Rule7(p, r) ==
  IF Threw(r) THEN r
  ELSE LET h == hasRelations(p.entities, 1) IN
       IF Threw(h) THEN h
       ELSE IF h.val /\ p.stack.type = "frontend"
            THEN PushWarning(r, Conflict("warning", "RELATIONS_NO_BACKEND",
                   "Entity relations defined in frontend-only project",
                   "Add a backend to properly handle entity relationships"))
            ELSE r

\* Rule 8 with entities.length <= 2 in place of < 2
Rule8_OffByOne(p, r) ==
  IF Threw(r) THEN r
  ELSE IF p.stack.architecture = "microservices" /\ Len(p.entities) <= 2
       THEN PushSuggestion(r, Conflict("warning", "MICROSERVICES_MINIMAL",
              "Microservices architecture selected with minimal entities",
              "Microservices may be overkill for projects with few entities. Consider using monolithic architecture."))
       ELSE r

\* Rule 8: Microservices without multiple services
Rule8(p, r) ==
  IF Threw(r) THEN r
  ELSE IF p.stack.architecture = "microservices" /\ Len(p.entities) < 2
       THEN PushSuggestion(r, Conflict("warning", "MICROSERVICES_MINIMAL",
              "Microservices architecture selected with minimal entities",
              "Microservices may be overkill for projects with few entities. Consider using monolithic architecture."))
       ELSE r

\* Rule 9: Database configured but always null in MVP
Rule9(p, r) ==
  IF Threw(r) THEN r
  ELSE IF Nullish(p.stack.database) THEN TypeError(p.stack.database, "type")
  ELSE IF p.stack.database.type # Null
       THEN PushSuggestion(r, Conflict("warning", "DATABASE_NOT_IMPLEMENTED",
              "Database configuration detected but not yet supported in MVP",
              "Database features will be available in a future version"))
       ELSE r

\* Rule 10: Rate limiting without auth
Rule10(p, r) ==
  IF Threw(r) THEN r
  ELSE IF Nullish(p.auth) THEN TypeError(p.auth, "security")
  ELSE IF Nullish(p.auth.security) THEN TypeError(p.auth.security, "rateLimiting")
  ELSE IF p.auth.security.rateLimiting /\ ~p.auth.enabled
       THEN PushSuggestion(r, Conflict("warning", "RATE_LIMIT_NO_AUTH",
              "Rate limiting enabled without authentication",
              "Rate limiting is typically used to protect authenticated endpoints"))
       ELSE r

\* Rule 11: GraphQL without backend
Rule11(p, r) ==
  IF Threw(r) THEN r
  ELSE IF p.api.type = "graphql" /\ p.stack.type = "frontend"
       THEN PushConflict(r, Conflict("error", "GRAPHQL_NO_BACKEND",
              "GraphQL API requires a backend",
              "Change stack type to include a backend"))
       ELSE r

\* Rule 12: No tests with deployment enabled
Rule12(p, r) ==
  IF Threw(r) THEN r
  ELSE IF ~p.tests.unit /\ ~p.tests.integration /\ ~p.tests.e2e
          /\ p.deployment.ci.enabled
       THEN PushSuggestion(r, Conflict("warning", "NO_TESTS_WITH_CI",
              "CI/CD pipeline enabled but no automated tests configured",
              "Enable at least unit tests for CI/CD pipeline"))
       ELSE r

\* The integrity result, or the exception the call raises
detectConflicts(p) ==
  Rule12(p, Rule11(p, Rule10(p, Rule9(p, Rule8(p, Rule7(p,
    Rule6(p, Rule5(p, Rule4(p, Rule3(p, Rule2(p, Rule1(p,
      EmptyIntegrity))))))))))))

\* isValid also requiring an empty warnings bucket
isValid_CountsWarnings(p) ==
  LET r == detectConflicts(p) IN
  IF Threw(r) THEN r ELSE Ret(Len(r.conflicts) = 0 /\ Len(r.warnings) = 0)

\* result.conflicts.length === 0 (the exception of detectConflicts propagates)
isValid(p) ==
  LET r == detectConflicts(p) IN
  IF Threw(r) THEN r ELSE Ret(Len(r.conflicts) = 0)

\* getAllIssues spreading the warnings first
getAllIssues_WarningsFirst(p) ==
  LET r == detectConflicts(p) IN
  IF Threw(r) THEN r ELSE Ret(r.warnings \o r.conflicts)

\* [...result.conflicts, ...result.warnings]
getAllIssues(p) ==
  LET r == detectConflicts(p) IN
  IF Threw(r) THEN r ELSE Ret(r.conflicts \o r.warnings)

(***************************************************************************)
(* services/testsPlanner.ts.  Template strings are concatenations.         *)
(***************************************************************************)
TestCase(name, description, steps, expectedResult) ==
  [name |-> name, description |-> description, steps |-> steps,
   expectedResult |-> expectedResult]

\* arr.filter((f) => f.unique)
RECURSIVE FilterUnique(_)
FilterUnique(fields) ==
  IF Len(fields) = 0 THEN <<>>
  ELSE IF Head(fields).unique
       THEN <<Head(fields)>> \o FilterUnique(Tail(fields))
       ELSE FilterUnique(Tail(fields))

\* arr.filter((ep) => ep.authRequired)
RECURSIVE FilterAuthRequired(_)
FilterAuthRequired(endpoints) ==
  IF Len(endpoints) = 0 THEN <<>>
  ELSE IF Head(endpoints).authRequired
       THEN <<Head(endpoints)>> \o FilterAuthRequired(Tail(endpoints))
       ELSE FilterAuthRequired(Tail(endpoints))

\* fields.map((f) => f.name).join(', ')
RECURSIVE JoinNames(_)
JoinNames(fields) ==
  IF Len(fields) = 0 THEN ""
  ELSE IF Len(fields) = 1 THEN fields[1].name
       ELSE fields[1].name \o ", " \o JoinNames(Tail(fields))

\* AuthUnitTests with the OAuth case outside the auth.enabled block
AuthUnitTests_OAuthUngated(auth) ==
  (IF auth.enabled
   THEN << TestCase("Authentication - Valid Credentials",
             "Test login with valid email and password",
             <<"Create a test user account",
               "Attempt login with valid credentials",
               "Verify auth token is generated">>,
             "User is authenticated and token is returned"),
           TestCase("Authentication - Invalid Credentials",
             "Test login with invalid password",
             <<"Attempt login with valid email but invalid password",
               "Verify error is returned">>,
             "Login fails with appropriate error message") >>
   ELSE <<>>)
  \o (IF Includes(auth.methods, "OAuth")
      THEN << TestCase("OAuth Integration",
                "Test OAuth provider integration",
                <<"Redirect to OAuth provider",
                  "Complete OAuth flow",
                  "Verify user is created/logged in">>,
                "User is authenticated via OAuth") >>
      ELSE <<>>)

\* The cases of the auth block of generateUnitTests
AuthUnitTests(auth) ==
  IF auth.enabled
  THEN << TestCase("Authentication - Valid Credentials",
            "Test login with valid email and password",
            <<"Create a test user account",
              "Attempt login with valid credentials",
              "Verify auth token is generated">>,
            "User is authenticated and token is returned"),
          TestCase("Authentication - Invalid Credentials",
            "Test login with invalid password",
            <<"Attempt login with valid email but invalid password",
              "Verify error is returned">>,
            "Login fails with appropriate error message") >>
       \o (IF Includes(auth.methods, "OAuth")
           THEN << TestCase("OAuth Integration",
                     "Test OAuth provider integration",
                     <<"Redirect to OAuth provider",
                       "Complete OAuth flow",
                       "Verify user is created/logged in">>,
                     "User is authenticated via OAuth") >>
           ELSE <<>>)
  ELSE <<>>

\* UniqueConstraintTest with the step naming the last unique field
UniqueConstraintTest_LastUnique(entity, uniqueFields) ==
  TestCase(entity.name \o " - Unique Constraint",
    "Test unique constraint on " \o JoinNames(uniqueFields),
    <<"Create first " \o entity.name,
      "Attempt to create duplicate with same "
        \o uniqueFields[Len(uniqueFields)].name>>,
    "Duplicate creation fails with constraint error")

\* The uniqueness case of an entity that has the unique fields uniqueFields
UniqueConstraintTest(entity, uniqueFields) ==
  TestCase(entity.name \o " - Unique Constraint",
    "Test unique constraint on " \o JoinNames(uniqueFields),
    <<"Create first " \o entity.name,
      "Attempt to create duplicate with same " \o uniqueFields[1].name>>,
    "Duplicate creation fails with constraint error")

\* The validation case of an entity
ValidationTest(entity) ==
  TestCase(entity.name \o " - Validation",
    "Test " \o entity.name \o " entity validation rules",
    <<"Create a " \o entity.name \o " with required fields",
      "Validate all constraints are enforced">>,
    entity.name \o " is created with valid data")

\* EntityUnitTests with one uniqueness case per unique field
EntityUnitTests_PerUniqueField(entity) ==
  LET uniqueFields == FilterUnique(entity.fields.items) IN
  <<ValidationTest(entity)>>
  \o [k \in 1..Len(uniqueFields) |->
        UniqueConstraintTest(entity, uniqueFields)]

\* The cases one entity adds in generateUnitTests (its fields are present)
EntityUnitTests(entity) ==
  LET uniqueFields == FilterUnique(entity.fields.items) IN
  <<ValidationTest(entity)>>
  \o (IF Len(uniqueFields) > 0
      THEN <<UniqueConstraintTest(entity, uniqueFields)>>
      ELSE <<>>)

\* project.entities.forEach of generateUnitTests, from index i on
RECURSIVE EntitiesUnitTests(_, _, _)
EntitiesUnitTests(entities, i, tests) ==
  IF i > Len(entities) THEN Ret(tests)
  ELSE IF Nullish(entities[i].fields)
       THEN TypeError(entities[i].fields, "filter")
       ELSE EntitiesUnitTests(entities, i + 1,
              tests \o EntityUnitTests(entities[i]))

\* EndpointUnitTests with the POST case in the else branch of the GET test
EndpointUnitTests_GetOrPost(endpoint) ==
  IF Includes(endpoint.methods, "GET")
  THEN << TestCase("GET " \o endpoint.path,
            "Test GET endpoint: " \o endpoint.description,
            <<"Send GET request to " \o endpoint.path,
              "Verify response status code",
              "Verify response format">>,
            "Endpoint returns 200 OK with correct data format") >>
  ELSE IF Includes(endpoint.methods, "POST")
       THEN << TestCase("POST " \o endpoint.path,
                 "Test POST endpoint: " \o endpoint.description,
                 <<"Send POST request with valid data to " \o endpoint.path,
                   "Verify response status code is 201",
                   "Verify created resource is returned">>,
                 "Resource is created and returned with 201 status") >>
       ELSE <<>>

\* The cases one endpoint adds in generateUnitTests
EndpointUnitTests(endpoint) ==
  (IF Includes(endpoint.methods, "GET")
   THEN << TestCase("GET " \o endpoint.path,
             "Test GET endpoint: " \o endpoint.description,
             <<"Send GET request to " \o endpoint.path,
               "Verify response status code",
               "Verify response format">>,
             "Endpoint returns 200 OK with correct data format") >>
   ELSE <<>>)
  \o (IF Includes(endpoint.methods, "POST")
      THEN << TestCase("POST " \o endpoint.path,
                "Test POST endpoint: " \o endpoint.description,
                <<"Send POST request with valid data to " \o endpoint.path,
                  "Verify response status code is 201",
                  "Verify created resource is returned">>,
                "Resource is created and returned with 201 status") >>
      ELSE <<>>)

RECURSIVE EndpointsUnitTests(_)
EndpointsUnitTests(endpoints) ==
  IF Len(endpoints) = 0 THEN <<>>
  ELSE EndpointUnitTests(Head(endpoints)) \o EndpointsUnitTests(Tail(endpoints))

\* generateUnitTests with an early return on tests.unit
generateUnitTests_GatedOnUnit(p) ==
  IF p.tests.unit = FALSE THEN Ret(<<>>)
  ELSE IF Nullish(p.auth) THEN TypeError(p.auth, "enabled")
  ELSE LET afterEntities ==
             EntitiesUnitTests(p.entities, 1, AuthUnitTests(p.auth)) IN
       IF Threw(afterEntities) THEN afterEntities
       ELSE IF p.api.type = "rest"
            THEN IF Nullish(p.api.endpoints)
                 THEN TypeError(p.api.endpoints, "forEach")
                 ELSE Ret(afterEntities.val \o EndpointsUnitTests(p.api.endpoints.items))
            ELSE afterEntities

generateUnitTests(p) ==
  IF Nullish(p.auth) THEN TypeError(p.auth, "enabled")
  ELSE LET afterEntities ==
             EntitiesUnitTests(p.entities, 1, AuthUnitTests(p.auth)) IN
       IF Threw(afterEntities) THEN afterEntities
       ELSE IF p.api.type = "rest"
            THEN IF Nullish(p.api.endpoints)
                 THEN TypeError(p.api.endpoints, "forEach")
                 ELSE Ret(afterEntities.val \o EndpointsUnitTests(p.api.endpoints.items))
            ELSE afterEntities

CrudFlowTest ==
  TestCase("Full API Flow - CRUD Operations",
    "Test complete CRUD flow through API",
    <<"Create a resource via POST",
      "Read the created resource via GET",
      "Update the resource via PUT",
      "Verify update is persisted",
      "Delete the resource via DELETE",
      "Verify deletion is complete">>,
    "All CRUD operations work correctly end-to-end")

ProtectedEndpointTest(endpoint) ==
  TestCase("Protected Endpoint - " \o endpoint.path,
    "Test authentication requirement on " \o endpoint.path,
    <<"Attempt access to " \o endpoint.path \o " without auth",
      "Verify 401 response",
      "Attempt access with valid auth token",
      "Verify request succeeds">>,
    "Protected endpoints correctly enforce authentication")

RelationshipTest(entity1, entity2) ==
  TestCase(entity1.name \o " - " \o entity2.name \o " Relationship",
    "Test relationship between " \o entity1.name \o " and " \o entity2.name,
    <<"Create a " \o entity1.name,
      "Create a " \o entity2.name,
      "Link " \o entity2.name \o " to " \o entity1.name,
      "Verify relationship is established">>,
    "Relationship between " \o entity1.name \o " and " \o entity2.name
      \o " works correctly")

\* RelationTests which also takes a relation of the second entity to the first
RelationTests_EitherDirection(p, tests) ==
  IF Len(p.entities) > 1
  THEN LET entity1 == p.entities[1]
           entity2 == p.entities[2] IN
       IF Nullish(entity1.relations) THEN TypeError(entity1.relations, "find")
       ELSE IF \/ \E i \in 1..Len(entity1.relations.items) :
                    entity1.relations.items[i].target = entity2.name
               \/ \E i \in 1..Len(entity2.relations.items) :
                    entity2.relations.items[i].target = entity1.name
            THEN Ret(Append(tests, RelationshipTest(entity1, entity2)))
            ELSE Ret(tests)
  ELSE Ret(tests)

\* The multi-entity block of generateIntegrationTests
RelationTests(p, tests) ==
  IF Len(p.entities) > 1
  THEN LET entity1 == p.entities[1]
           entity2 == p.entities[2] IN
       IF Nullish(entity1.relations) THEN TypeError(entity1.relations, "find")
       ELSE IF \E i \in 1..Len(entity1.relations.items) :
                  entity1.relations.items[i].target = entity2.name
            THEN Ret(Append(tests, RelationshipTest(entity1, entity2)))
            ELSE Ret(tests)
  ELSE Ret(tests)

\* CrudTests with one CRUD-flow case per entity
CrudTests_PerEntity(p) ==
  IF p.api.type # "none" /\ Len(p.entities) > 0
  THEN [i \in 1..Len(p.entities) |-> CrudFlowTest] ELSE <<>>

\* The API and database block of generateIntegrationTests
CrudTests(p) ==
  IF p.api.type # "none" /\ Len(p.entities) > 0
  THEN <<CrudFlowTest>> ELSE <<>>

\* ProtectedTests which emits the cases only for an api of some type
ProtectedTests_NeedsApi(p) ==
  IF p.auth.enabled /\ p.api.type # "none"
  THEN IF Nullish(p.api.endpoints) THEN TypeError(p.api.endpoints, "filter")
       ELSE LET eps == FilterAuthRequired(p.api.endpoints.items) IN
            Ret([i \in 1..Len(eps) |-> ProtectedEndpointTest(eps[i])])
  ELSE Ret(<<>>)

\* The auth block of generateIntegrationTests (project.auth is present)
ProtectedTests(p) ==
  IF p.auth.enabled
  THEN IF Nullish(p.api.endpoints) THEN TypeError(p.api.endpoints, "filter")
       ELSE LET eps == FilterAuthRequired(p.api.endpoints.items) IN
            Ret([i \in 1..Len(eps) |-> ProtectedEndpointTest(eps[i])])
  ELSE Ret(<<>>)

\* generateIntegrationTests without the early return on tests.integration
generateIntegrationTests_Ungated(p) ==
  IF Nullish(p.auth) THEN TypeError(p.auth, "enabled")
  ELSE LET protected == ProtectedTests(p) IN
       IF Threw(protected) THEN protected
       ELSE RelationTests(p, CrudTests(p) \o protected.val)

generateIntegrationTests(p) ==
  IF p.tests.integration = FALSE THEN Ret(<<>>)
  ELSE IF Nullish(p.auth) THEN TypeError(p.auth, "enabled")
  ELSE LET protected == ProtectedTests(p) IN
       IF Threw(protected) THEN protected
       ELSE RelationTests(p, CrudTests(p) \o protected.val)

FeatureTest(feature) ==
  TestCase("Feature: " \o feature.name,
    "Test complete " \o feature.name \o " workflow",
    <<"Navigate to " \o feature.name \o " section",
      "Perform primary action for " \o feature.name,
      "Verify result is displayed">>,
    feature.name \o " feature works end-to-end")

MainJourneyTest ==
  TestCase("Main User Journey",
    "Test complete user journey through application",
    <<"User enters application",
      "User completes onboarding (if applicable)",
      "User accesses primary features",
      "User completes main task flow">>,
    "User can complete primary objectives without errors")

\* MainJourneyTests which emits the case also without features
MainJourneyTests_Always(features) == <<MainJourneyTest>>

\* The general-flow block of generateE2eTests
MainJourneyTests(features) ==
  IF Len(features) > 0 THEN <<MainJourneyTest>> ELSE <<>>

generateE2eTests(p) ==
  IF p.tests.e2e = FALSE \/ p.stack.type = "backend" THEN Ret(<<>>)
  ELSE IF Nullish(p.auth) THEN TypeError(p.auth, "enabled")
  ELSE Ret(
    (IF p.auth.enabled
     THEN << TestCase("User Registration and Login Flow",
               "Complete user registration and authentication flow",
               <<"Navigate to registration page",
                 "Fill out registration form",
                 "Submit form",
                 "Verify success message",
                 "Navigate to login",
                 "Enter credentials",
                 "Verify dashboard is displayed">>,
               "User can register and login successfully") >>
     ELSE <<>>)
    \o [i \in 1..Len(p.features) |-> FeatureTest(p.features[i])]
    \o MainJourneyTests(p.features))

DataIntegrityCheck(entity) ==
  TestCase(entity.name \o " - Data Integrity",
    "Manual verification of " \o entity.name \o " data handling",
    <<"Create multiple " \o entity.name \o " records",
      "Verify data is stored correctly",
      "Export data and verify format">>,
    entity.name \o " data integrity is maintained")

SecurityAuditCheck ==
  TestCase("Security Audit",
    "Manual security review of authentication and data handling",
    <<"Verify passwords are properly hashed",
      "Verify tokens expire correctly",
      "Test CSRF protection",
      "Verify XSS prevention",
      "Check SQL injection protection">>,
    "Application follows security best practices")

\* SecurityAuditChecks which emits the check also without auth
SecurityAuditChecks_Always(auth) == <<SecurityAuditCheck>>

\* The security block of generateManualChecks
SecurityAuditChecks(auth) ==
  IF auth.enabled THEN <<SecurityAuditCheck>> ELSE <<>>

generateManualChecks(p) ==
  IF p.tests.manualChecklists = FALSE THEN Ret(<<>>)
  ELSE IF Nullish(p.auth) THEN TypeError(p.auth, "enabled")
  ELSE Ret(
    << TestCase("Cross-Browser Compatibility",
         "Verify application works across different browsers",
         <<"Test on Chrome (latest)",
           "Test on Firefox (latest)",
           "Test on Safari (latest)",
           "Test on Edge (latest)",
           "Verify responsive design on mobile">>,
         "Application works correctly on all major browsers and devices"),
       TestCase("Performance Baseline",
         "Verify application performance meets baseline requirements",
         <<"Measure page load time",
           "Measure API response time",
           "Check memory usage",
           "Verify no console errors">>,
         "Application meets performance requirements") >>
    \o SecurityAuditChecks(p.auth)
    \o << TestCase("Accessibility Review",
            "Verify WCAG compliance and accessibility standards",
            <<"Test keyboard navigation",
              "Verify screen reader compatibility",
              "Check color contrast ratios",
              "Verify focus indicators">>,
            "Application is accessible to all users") >>
    \o [i \in 1..Len(p.entities) |-> DataIntegrityCheck(p.entities[i])])

\* The tests plan, or the exception raised by the first generator that fails
generateTestsPlan(p) ==
  LET unitTests == generateUnitTests(p) IN
  IF Threw(unitTests) THEN unitTests ELSE
  LET integrationTests == generateIntegrationTests(p) IN
  IF Threw(integrationTests) THEN integrationTests ELSE
  LET e2eTests == generateE2eTests(p) IN
  IF Threw(e2eTests) THEN e2eTests ELSE
  LET manualChecks == generateManualChecks(p) IN
  IF Threw(manualChecks) THEN manualChecks ELSE
  [ unitTests |-> unitTests.val,
    integrationTests |-> integrationTests.val,
    e2eTests |-> e2eTests.val,
    manualChecks |-> manualChecks.val ]

(***************************************************************************)
(* The request bodies explored.  Lists are prefixes of fixed name lists.   *)
(***************************************************************************)
RoleNames == <<"admin", "user", "guest", "editor">>
FeatureNames == <<"User Management", "Billing", "Search", "Reports">>
EntityNames == <<"User", "Post", "Comment", "Tag", "Order">>

Prefixes(names, max) == {SubSeq(names, 1, n) : n \in 0..max}

MethodChoices == {<<>>, <<"OAuth">>, <<"OAuth", "email/password">>}
PolicyChoices == {Null, Str(""), Str("min 8 chars")}
DatabaseTypeChoices == {Null, Str("postgresql")}

Feature(i) == [name |-> FeatureNames[i]]
FeatureChoices == {[i \in 1..n |-> Feature(i)] : n \in 0..MaxFeatures}

\* Entity i of a list of n entities: it has no relation, or one to its
\* neighbour (and the first entity a second one, to itself)
NeighbourOf(i, n) == IF i < n THEN EntityNames[i + 1] ELSE EntityNames[1]
Entity(i, n, related) ==
  [ name |-> EntityNames[i],
    fields |-> Arr(<<[name |-> "id", unique |-> TRUE]>>),
    relations |-> Arr(IF related
                      THEN <<[target |-> NeighbourOf(i, n)]>>
                           \o (IF i = 1 THEN <<[target |-> EntityNames[1]]>>
                               ELSE <<>>)
                      ELSE <<>>) ]
EntityChoices ==
  UNION {{[i \in 1..n |-> Entity(i, n, rel[i])] : rel \in [1..n -> BOOLEAN]}
         : n \in 0..MaxEntities}

AuthChoices ==
  { [ enabled |-> en, methods |-> ms, roles |-> rs,
      security |-> [passwordPolicy |-> pol, rateLimiting |-> rl] ] :
    en \in BOOLEAN, ms \in MethodChoices, rs \in Prefixes(RoleNames, MaxRoles),
    pol \in PolicyChoices, rl \in BOOLEAN }

\* The three auth settings rule 1 tells apart
AuthFew ==
  { defaultProject.auth,
    [defaultProject.auth EXCEPT !.enabled = TRUE],
    [defaultProject.auth EXCEPT !.enabled = TRUE, !.roles = <<"admin">>] }

\* Every auth setting, with the stack, api and database varying
AuthInputs ==
  { [defaultProject EXCEPT !.auth = a, !.stack.type = st, !.api.type = at,
                           !.stack.database.type = db] :
    a \in AuthChoices, st \in ProjectStackType, at \in ApiType,
    db \in DatabaseTypeChoices }

\* Every setting of the other fields the rules read, with a few auth settings
StructureInputs ==
  { [defaultProject EXCEPT !.auth = a, !.stack.type = st,
                           !.stack.architecture = ar, !.api.type = at,
                           !.features = fs, !.entities = es,
                           !.tests.unit = tu, !.tests.integration = ti,
                           !.tests.e2e = te, !.deployment.ci.enabled = ci] :
    a \in AuthFew, st \in ProjectStackType, ar \in ArchitectureType,
    at \in ApiType, fs \in FeatureChoices, es \in EntityChoices,
    tu \in BOOLEAN, ti \in BOOLEAN, te \in BOOLEAN, ci \in BOOLEAN }

WellTyped == AuthInputs \cup StructureInputs

(***************************************************************************)
(* Bodies that lack a nested object the ProjectSpec type requires: the     *)
(* routes cast request.body to ProjectSpec without validating it.          *)
(***************************************************************************)
Missing == {Null, Undefined}

MalformedBases ==
  { [defaultProject EXCEPT !.auth.enabled = en,
                           !.auth.methods = <<"OAuth", "email/password">>,
                           !.auth.roles = <<"admin">>,
                           !.api.type = at, !.tests.integration = ti,
                           !.entities = es] :
    en \in BOOLEAN, at \in {"rest", "none"}, ti \in BOOLEAN,
    es \in {e \in EntityChoices : Len(e) > 0} }

Malformed ==
  UNION { { [b EXCEPT !.auth = m],
            [b EXCEPT !.auth.security = m],
            [b EXCEPT !.stack.database = m],
            [b EXCEPT !.api.endpoints = m] }
          \cup { [b EXCEPT !.entities[i].relations = m] : i \in 1..Len(b.entities) }
          \cup { [b EXCEPT !.entities[i].fields = m] : i \in 1..Len(b.entities) }
          : b \in MalformedBases, m \in Missing }

Inputs == WellTyped \cup Malformed

(***************************************************************************)
(* The service calls and the routes around them.                           *)
(***************************************************************************)
NoResult == [t |-> "pending"]
NoReply == [status |-> 0]

\* error.message of the TypeError
Message(err) ==
  "Cannot read properties of " \o err.of \o " (reading '" \o err.reading \o "')"

\* A request to POST /api/generate that has not arrived yet
NoRequest ==
  [ pc |-> "idle", authHeader |-> Undefined, body |-> Undefined,
    userId |-> "", integrity |-> NoResult, upstream |-> NoResult,
    readme |-> "", id |-> "", persisted |-> "pending",
    reply |-> NoReply, calls |-> {}, sent |-> 0 ]

Requests == {"r1", "r2"}

\* The generation route at start-up: no request, empty stores
GenerateIdle ==
  /\ requests = [r \in Requests |-> NoRequest]
  /\ resultStorage = {}
  /\ firestore = {}
  /\ now = 0

Init ==
  /\ project \in Inputs
  /\ pc = "idle"
  /\ result = NoResult
  /\ reply = NoReply
  /\ GenerateIdle
  /\ apiKey = Undefined

\* POST /api/detect-conflicts (routes/conflicts.ts)
PostDetectConflicts ==
  /\ pc = "idle"
  /\ LET integrity == detectConflicts(project) IN
     /\ result' = integrity
     /\ reply' = IF Threw(integrity)
                 THEN [status |-> 500,
                       error |-> "Failed to detect conflicts: " \o Message(integrity)]
                 ELSE [status |-> 200, body |-> integrity]
  /\ pc' = "detect-conflicts"
  /\ UNCHANGED <<project, generateVars>>

\* POST /api/tests-plan (routes/tests.ts)
PostTestsPlan ==
  /\ pc = "idle"
  /\ LET testsPlan == generateTestsPlan(project) IN
     /\ result' = testsPlan
     /\ reply' = IF Threw(testsPlan)
                 THEN [status |-> 500,
                       error |-> "Failed to generate test plan: " \o Message(testsPlan)]
                 ELSE [status |-> 200, body |-> testsPlan]
  /\ pc' = "tests-plan"
  /\ UNCHANGED <<project, generateVars>>

\* A direct call of isValid(project)
CallIsValid ==
  /\ pc = "idle"
  /\ result' = isValid(project)
  /\ pc' = "isValid"
  /\ UNCHANGED <<project, reply, generateVars>>

\* A direct call of getAllIssues(project)
CallGetAllIssues ==
  /\ pc = "idle"
  /\ result' = getAllIssues(project)
  /\ pc' = "getAllIssues"
  /\ UNCHANGED <<project, reply, generateVars>>

Next ==
  \/ PostDetectConflicts
  \/ PostTestsPlan
  \/ CallIsValid
  \/ CallGetAllIssues

Spec == Init /\ [][Next]_vars

(***************************************************************************)
(* The bodies explored for the tests planner: the tests flags, the auth    *)
(* block and the unique flags of the entities' fields vary.                *)
(***************************************************************************)
Field(name, unique) == [name |-> name, unique |-> unique]

FieldChoices ==
  { <<>>,
    <<Field("id", FALSE)>>,
    <<Field("email", TRUE)>>,
    <<Field("title", FALSE), Field("email", TRUE), Field("slug", TRUE)>> }

PlanEntity(i, fields) ==
  [name |-> EntityNames[i], fields |-> Arr(fields), relations |-> Arr(<<>>)]

PlanEntityChoices ==
  UNION {{[i \in 1..n |-> PlanEntity(i, fs[i])] : fs \in [1..n -> FieldChoices]}
         : n \in 0..MaxEntities}

PlanAuthChoices ==
  { [defaultProject.auth EXCEPT !.enabled = en, !.methods = ms] :
    en \in BOOLEAN, ms \in {<<"email/password">>, <<"email/password", "OAuth">>} }

PlanInputs ==
  { [defaultProject EXCEPT !.auth = a, !.stack.type = st, !.api.type = at,
                           !.features = fs, !.entities = es,
                           !.tests.integration = ti, !.tests.e2e = te,
                           !.tests.manualChecklists = tm] :
    a \in PlanAuthChoices, st \in {"fullstack", "backend"},
    at \in {"rest", "none"}, fs \in FeatureChoices, es \in PlanEntityChoices,
    ti \in BOOLEAN, te \in BOOLEAN, tm \in BOOLEAN }

InitPlan ==
  /\ project \in PlanInputs
  /\ pc = "idle"
  /\ result = NoResult
  /\ reply = NoReply
  /\ GenerateIdle
  /\ apiKey = Undefined

SpecPlan == InitPlan /\ [][Next]_vars

(***************************************************************************)
(* The bodies explored for the endpoint cases: the endpoints, the api      *)
(* type, auth.enabled, tests.unit and tests.integration vary.              *)
(***************************************************************************)
EndpointPaths == <<"/users", "/posts", "/tags", "/orders">>

MethodsChoices == {<<"GET">>, <<"POST">>, <<"POST", "GET">>, <<"DELETE">>}

Endpoint(i, methods, authRequired) ==
  [ path |-> EndpointPaths[i], methods |-> methods,
    description |-> "Endpoint " \o EndpointPaths[i],
    authRequired |-> authRequired ]

EndpointChoices ==
  UNION {{[i \in 1..n |-> Endpoint(i, ms[i], ar[i])] :
            ms \in [1..n -> MethodsChoices], ar \in [1..n -> BOOLEAN]}
         : n \in 0..MaxEndpoints}

PlainEntities ==
  {[i \in 1..n |-> PlanEntity(i, <<Field("id", FALSE)>>)] : n \in 0..MaxEntities}

ApiPlanInputs ==
  { [defaultProject EXCEPT !.auth.enabled = en, !.api.type = at,
                           !.api.endpoints = Arr(eps), !.entities = es,
                           !.tests.unit = tu, !.tests.integration = ti] :
    en \in BOOLEAN, at \in ApiType, eps \in EndpointChoices,
    es \in PlainEntities, tu \in BOOLEAN, ti \in BOOLEAN }

InitPlanApi ==
  /\ project \in ApiPlanInputs
  /\ pc = "idle"
  /\ result = NoResult
  /\ reply = NoReply
  /\ GenerateIdle
  /\ apiKey = Undefined

SpecPlanApi == InitPlanApi /\ [][Next]_vars

(***************************************************************************)
(* The bodies explored for the relationship case: up to one entity more    *)
(* than elsewhere, each with no relation, one relation to any entity of    *)
(* the list, or two relations: to the third name, then to the second.      *)
(***************************************************************************)
RelatedEntity(i, targets) ==
  [ name |-> EntityNames[i], fields |-> Arr(<<>>),
    relations |-> Arr([j \in 1..Len(targets) |-> [target |-> targets[j]]]) ]

TargetChoices(n) ==
  {<<>>, <<EntityNames[3], EntityNames[2]>>}
  \cup {<<EntityNames[j]>> : j \in 1..n}

RelatedEntityChoices ==
  UNION {{[i \in 1..n |-> RelatedEntity(i, ts[i])] :
            ts \in [1..n -> TargetChoices(n)]}
         : n \in 0..(MaxEntities + 1)}

RelationPlanInputs ==
  { [defaultProject EXCEPT !.api.type = at, !.entities = es,
                           !.tests.integration = ti] :
    at \in {"rest", "none"}, es \in RelatedEntityChoices, ti \in BOOLEAN }

InitPlanRelations ==
  /\ project \in RelationPlanInputs
  /\ pc = "idle"
  /\ result = NoResult
  /\ reply = NoReply
  /\ GenerateIdle
  /\ apiKey = Undefined

SpecPlanRelations == InitPlanRelations /\ [][Next]_vars

(***************************************************************************)
(* POST /api/generate (routes/generate.ts) and what it calls.  The         *)
(* handler runs without interruption between two awaits, so each action    *)
(* is one stretch of it: up to the token verification, up to the upstream  *)
(* call of the README builder, up to the persistence call, and the reply.  *)
(***************************************************************************)
\* An Error with the given message, raised
Error(message) == [threw |-> "Error", message |-> message]

\* error.message
ErrorMessage(err) ==
  IF err.threw = "TypeError" THEN Message(err) ELSE err.message

\* String.prototype.startsWith and String.prototype.slice(start)
StartsWith(s, prefix) ==
  Len(s) >= Len(prefix) /\ SubSeq(s, 1, Len(prefix)) = prefix
Slice(s, start) == SubSeq(s, start + 1, Len(s))

\* !authHeader || !authHeader.startsWith('Bearer ')
HeaderRejected(authHeader) ==
  Falsy(authHeader) \/ ~StartsWith(authHeader.v, "Bearer ")

\* The ID tokens Firebase accepts, with the user each one belongs to
KnownTokens ==
  { [token |-> "tok-alice", uid |-> "alice"],
    [token |-> "tok-bob", uid |-> "bob"] }

\* services/firebaseAdmin.ts verifyIdToken
verifyIdToken(idToken) ==
  IF \E k \in KnownTokens : k.token = idToken
  THEN Ret([uid |-> (CHOOSE k \in KnownTokens : k.token = idToken).uid])
  ELSE Error("Invalid or expired authentication token")

\* RequiredFieldsMissing which accepts an empty project name
RequiredFieldsMissing_EmptyNameAccepted(body) ==
  Nullish(body) \/ Nullish(body.meta) \/ Nullish(body.meta.projectName)

\* !project || !project.meta || !project.meta.projectName
RequiredFieldsMissing(body) ==
  Nullish(body) \/ Nullish(body.meta) \/ Falsy(body.meta.projectName)

\* The top-level keys of a ProjectSpec, in the order of defaultProject
ProjectKeys ==
  <<"meta", "stack", "auth", "features", "entities", "api", "tests",
    "deployment", "documentation", "aiFiles", "integrity">>

\* Object.keys(project) of a body parsed from JSON; meta and auth are the
\* top-level keys a body may lack here
Keys(body) ==
  LET absent == {k \in {"meta", "auth"} : body[k] = Undefined}
      present(k) == k \in DOMAIN body /\ k \notin absent IN
  Arr(SelectSeq(ProjectKeys, present))

\* formatEntitiesInfo of services/readmeBuilder.ts, from entity i on: the
\* entity descriptions, or the TypeError of the first entity that lacks its
\* fields or its relations
RECURSIVE formatEntitiesInfo(_, _)
formatEntitiesInfo(entities, i) ==
  IF i > Len(entities) THEN Ret(<<>>)
  ELSE IF Nullish(entities[i].fields)
       THEN TypeError(entities[i].fields, "map")
  ELSE IF Nullish(entities[i].relations)
       THEN TypeError(entities[i].relations, "length")
  ELSE LET rest == formatEntitiesInfo(entities, i + 1) IN
       IF Threw(rest) THEN rest
       ELSE Ret(<<[ name |-> entities[i].name,
                    fields |-> [j \in 1..Len(entities[i].fields.items) |->
                                  entities[i].fields.items[j].name],
                    relations |-> [j \in 1..Len(entities[i].relations.items) |->
                                     entities[i].relations.items[j].target] ]>>
                \o rest.val)

\* Array.prototype.join of an array of strings
RECURSIVE Join(_, _)
Join(strs, sep) ==
  IF Len(strs) = 0 THEN ""
  ELSE IF Len(strs) = 1 THEN strs[1]
  ELSE strs[1] \o sep \o Join(Tail(strs), sep)

\* The forEach of formatApiInfo from endpoint i on: one line per endpoint,
\* or the TypeError of the first endpoint that has no methods
RECURSIVE EndpointLines(_, _)
EndpointLines(endpoints, i) ==
  IF i > Len(endpoints) THEN Ret("")
  ELSE IF "methods" \notin DOMAIN endpoints[i] THEN TypeError(Undefined, "join")
  ELSE LET rest == EndpointLines(endpoints, i + 1) IN
       IF Threw(rest) THEN rest
       ELSE Ret("  - " \o Join(endpoints[i].methods, ",") \o " "
                \o endpoints[i].path \o " - " \o endpoints[i].description
                \o "\n" \o rest.val)

\* formatApiInfo of services/readmeBuilder.ts
formatApiInfo(api) ==
  IF api.type = "none" THEN Ret("  No API specified.")
  ELSE LET info == "API Type: " \o api.type \o "\n"
                   \o "Documentation: " \o api.documentation \o "\n" IN
  IF Nullish(api.endpoints) THEN TypeError(api.endpoints, "length")
  ELSE IF Len(api.endpoints.items) = 0 THEN Ret(info)
  ELSE LET lines == EndpointLines(api.endpoints.items, 1) IN
       IF Threw(lines) THEN lines
       ELSE Ret(info \o "\nEndpoints:\n" \o lines.val)

\* formatTestsInfo of services/readmeBuilder.ts: the kinds of tests listed
formatTestsInfo(tests) ==
  (IF tests.unit THEN <<"Unit Tests">> ELSE <<>>)
  \o (IF tests.integration THEN <<"Integration Tests">> ELSE <<>>)
  \o (IF tests.e2e THEN <<"End-to-End Tests">> ELSE <<>>)
  \o (IF tests.manualChecklists THEN <<"Manual Checklists">> ELSE <<>>)

\* buildPrompt of services/readmeBuilder.ts: the values the prompt text is
\* made of, or the TypeError raised while formatting them
buildPrompt(body) ==
  LET entitiesInfo == formatEntitiesInfo(body.entities, 1)
      apiInfo == formatApiInfo(body.api) IN
  IF Threw(entitiesInfo) THEN entitiesInfo
  ELSE IF Threw(apiInfo) THEN apiInfo
  ELSE Ret([ projectName |-> body.meta.projectName,
             summary |-> body.meta.summary,
             stackType |-> body.stack.type,
             architecture |-> body.stack.architecture,
             features |-> [i \in 1..Len(body.features) |-> body.features[i].name],
             entities |-> entitiesInfo.val,
             api |-> apiInfo.val,
             tests |-> formatTestsInfo(body.tests) ])

NotConfigured ==
  "OPENAI_API_KEY is not configured. Please add it to your .env file: "
    \o "OPENAI_API_KEY=sk-..."

\* callGptStart which sends the request without looking at the credential
callGptStart_NoKeyCheck(key, prompt) ==
  Ret([model |-> "gpt-4o-mini", prompt |-> prompt])

\* The part of callGpt before the upstream request (services/openaiClient.ts):
\* the request sent, or the error raised without a credential
callGptStart(key, prompt) ==
  IF Falsy(key) THEN Error(NotConfigured)
  ELSE Ret([model |-> "gpt-4o-mini", prompt |-> prompt])

\* The part of buildReadme before the upstream request: the request sent,
\* or the error raised by buildPrompt or by callGpt without a credential
\* (which buildReadme catches and wraps)
buildReadmeStart(body, key) ==
  LET prompt == buildPrompt(body) IN
  IF Threw(prompt) THEN prompt
  ELSE LET request == callGptStart(key, prompt.val) IN
       IF Threw(request)
       THEN Error("Failed to generate README: " \o ErrorMessage(request))
       ELSE request

\* What the upstream call of callGpt can come back with: an API error, or
\* a response whose first choice has a content or none
ApiError(message) == [t |-> "APIError", message |-> message]
OtherError(message) == [t |-> "Error", message |-> message]
Response(content) == [t |-> "response", content |-> content]
UpstreamOutcomes ==
  { ApiError("429 Rate limit reached"), OtherError("socket hang up"),
    Response(Null), Response(Str("")),
    Response(Str("# Shop")), Response(Str("# Shop\n\nA web shop.")) }

\* callGptFinish which returns an empty content as it is
callGptFinish_AllowsEmpty(upstream) ==
  IF upstream.t = "APIError"
  THEN Error("OpenAI API Error: " \o upstream.message)
  ELSE IF upstream.t = "Error" THEN Error(upstream.message)
  ELSE IF Nullish(upstream.content)
       THEN Error("No content received from GPT")
       ELSE Ret(upstream.content.v)

\* The part of callGpt after the upstream request (services/openaiClient.ts):
\* an OpenAI.APIError is wrapped, any other error is rethrown as it is
callGptFinish(upstream) ==
  IF upstream.t = "APIError"
  THEN Error("OpenAI API Error: " \o upstream.message)
  ELSE IF upstream.t = "Error" THEN Error(upstream.message)
  ELSE IF Falsy(upstream.content)
       THEN Error("No content received from GPT")
       ELSE Ret(upstream.content.v)

\* The part of buildReadme after the upstream request
buildReadmeFinish(upstream) ==
  LET readme == callGptFinish(upstream) IN
  IF Threw(readme)
  THEN Error("Failed to generate README: " \o ErrorMessage(readme))
  ELSE readme

\* routes/result.ts storeResult: resultStorage.set(id, {...})
storeResult(storage, id, readme, timestamp) ==
  {e \in storage : e.id # id}
  \cup {[id |-> id, readme |-> readme, timestamp |-> timestamp]}

\* GET /api/result/:id (routes/result.ts)
getResult(storage, id) ==
  IF \E e \in storage : e.id = id
  THEN LET e == CHOOSE e \in storage : e.id = id IN
       [status |-> 200, id |-> e.id, readme |-> e.readme,
        timestamp |-> e.timestamp]
  ELSE [status |-> 404, error |-> "Result not found", id |-> id,
        availableIds |-> {e.id : e \in storage}]

\* The id Firestore gives to a document added to a collection
NewDocId(docs) == "doc" \o ToString(Cardinality(docs) + 1)

\* The document saveMarkdownDocument adds under users/{userId}/markdowns
MarkdownDocument(docs, userId, body, readme) ==
  [ id |-> NewDocId(docs), userId |-> userId,
    title |-> body.meta.projectName.v, markdown |-> readme,
    projectName |-> body.meta.projectName.v,
    description |-> IF Falsy(body.meta.summary) THEN "" ELSE body.meta.summary.v,
    content |-> readme, projectSpec |-> body ]

Replied(req, reply500) == [req EXCEPT !.pc = "done", !.reply = reply500]

\* The reply of the outer catch of the handler
Failed(err) ==
  [status |-> 500, error |-> "Failed to generate README: " \o ErrorMessage(err)]

\* The headers and the bodies of the requests explored
AuthHeaders ==
  { Undefined, Str("Basic YWxpY2U6cHc="),
    Str("Bearer tok-alice"), Str("Bearer tok-expired") }

Shop ==
  [defaultProject EXCEPT
     !.meta = [projectName |-> Str("Shop"), summary |-> Str("A web shop")],
     !.api.type = "rest",
     !.features = <<Feature(1)>>,
     !.entities = <<Entity(1, 1, FALSE)>>]

GenerateBodies ==
  { Undefined,
    [Shop EXCEPT !.meta = Undefined],
    [Shop EXCEPT !.meta.projectName = Undefined],
    [Shop EXCEPT !.meta.projectName = Str("")],
    Shop,
    [Shop EXCEPT !.meta.summary = Undefined],
    [Shop EXCEPT !.stack.type = "mobile"],
    [Shop EXCEPT !.auth = Undefined],
    [Shop EXCEPT !.entities[1].fields = Undefined],
    [Shop EXCEPT !.api.endpoints =
       Arr(<<Endpoint(1, <<"POST", "GET">>, TRUE), Endpoint(2, <<>>, FALSE)>>)],
    [Shop EXCEPT !.api.endpoints =
       Arr(<<[path |-> "/users", description |-> "Endpoint /users",
              authRequired |-> FALSE]>>)] }

\* The handler up to await verifyIdToken(token)
Receive(r, authHeader, body) ==
  /\ requests[r].pc = "idle"
  /\ LET req == [requests[r] EXCEPT !.authHeader = authHeader, !.body = body] IN
     requests' = [requests EXCEPT ![r] =
       IF HeaderRejected(authHeader)
       THEN Replied(req, [status |-> 401,
                          error |-> "Missing or invalid Authorization header",
                          code |-> "MISSING_AUTH"])
       ELSE [req EXCEPT !.pc = "verifying"]]
  /\ UNCHANGED <<resultStorage, firestore, now, apiKey, serviceVars>>

\* From the outcome of verifyIdToken up to the upstream request of callGpt
VerifyDone(r) ==
  /\ requests[r].pc = "verifying"
  /\ LET req == requests[r]
         body == req.body
         decodedToken == verifyIdToken(Slice(req.authHeader.v, 7)) IN
     requests' = [requests EXCEPT ![r] =
       IF Threw(decodedToken)
       THEN Replied(req, [status |-> 401,
                          error |-> "Invalid or expired authentication token",
                          code |-> "INVALID_TOKEN"])
       ELSE LET verified == [req EXCEPT !.userId = decodedToken.val.uid] IN
       IF RequiredFieldsMissing(body)
       THEN Replied(verified,
                    [status |-> 400, error |-> "Project name is required",
                     received |-> IF Nullish(body) THEN Str("no payload")
                                  ELSE Keys(body)])
       ELSE LET integrity == detectConflicts(body)
                checked == [verified EXCEPT !.calls = @ \cup {"detectConflicts"}] IN
       IF Threw(integrity) THEN Replied(checked, Failed(integrity))
       ELSE LET prompt == buildReadmeStart(body, apiKey)
                building == [checked EXCEPT !.integrity = integrity,
                                            !.calls = @ \cup {"buildReadme"}] IN
       IF Threw(prompt) THEN Replied(building, Failed(prompt))
       ELSE [building EXCEPT !.pc = "generating", !.sent = @ + 1,
                             !.calls = @ \cup {"chat.completions.create"}]]
  /\ UNCHANGED <<resultStorage, firestore, now, apiKey, serviceVars>>

\* From the outcome of the upstream request up to await saveMarkdownDocument.
\* Date.now() is read for the id and again inside storeResult for the
\* timestamp; elapsed is what the clock advanced between the two reads
GptDone(r, upstream, elapsed) ==
  /\ requests[r].pc = "generating"
  /\ LET req == [requests[r] EXCEPT !.upstream = upstream]
         readme == buildReadmeFinish(upstream)
         id == "proj_" \o ToString(now) IN
     IF Threw(readme)
     THEN /\ elapsed = 0
          /\ requests' = [requests EXCEPT ![r] = Replied(req, Failed(readme))]
          /\ UNCHANGED <<resultStorage, now>>
     ELSE /\ now + elapsed <= MaxClock
          /\ requests' = [requests EXCEPT ![r] =
                 [req EXCEPT !.pc = "saving", !.readme = readme.val, !.id = id,
                             !.calls = @ \cup {"storeResult", "saveMarkdownDocument"}]]
          /\ now' = now + elapsed
          /\ resultStorage' = storeResult(resultStorage, id, readme.val, now')
  /\ UNCHANGED <<firestore, apiKey, serviceVars>>

\* From the outcome of saveMarkdownDocument to the reply
SaveDone(r, saved) ==
  /\ requests[r].pc = "saving"
  /\ LET req == requests[r]
         savedDoc == MarkdownDocument(firestore, req.userId, req.body, req.readme) IN
     IF saved
     THEN /\ firestore' = firestore \cup {savedDoc}
          /\ requests' = [requests EXCEPT ![r] =
               Replied([req EXCEPT !.persisted = "saved"],
                       [status |-> 200, id |-> req.id, docId |-> savedDoc.id,
                        readme |-> req.readme, integrity |-> req.integrity])]
     ELSE /\ UNCHANGED firestore
          /\ requests' = [requests EXCEPT ![r] =
               Replied([req EXCEPT !.persisted = "failed"],
                       [status |-> 200, id |-> req.id,
                        readme |-> req.readme, integrity |-> req.integrity,
                        warning |-> "README generated but not saved to database"])]
  /\ UNCHANGED <<resultStorage, now, apiKey, serviceVars>>

\* A millisecond passes on the clock Date.now() reads
Tick ==
  /\ now < MaxClock
  /\ now' = now + 1
  /\ UNCHANGED <<requests, resultStorage, firestore, apiKey, serviceVars>>

InitGenerate ==
  /\ project = defaultProject
  /\ pc = "idle"
  /\ result = NoResult
  /\ reply = NoReply
  /\ GenerateIdle
  /\ apiKey \in {Undefined, Str("sk-test")}

NextGenerate ==
  \/ \E r \in Requests, authHeader \in AuthHeaders, body \in GenerateBodies :
       Receive(r, authHeader, body)
  \/ \E r \in Requests : VerifyDone(r)
  \/ \E r \in Requests, upstream \in UpstreamOutcomes, elapsed \in 0..1 :
       GptDone(r, upstream, elapsed)
  \/ \E r \in Requests, saved \in BOOLEAN : SaveDone(r, saved)
  \/ Tick

\* generateRequestSchema of routes/generate.ts: the minimum shape of a body
generateRequestSchema(body) ==
  /\ ~Nullish(body)
  /\ ~Nullish(body.meta)
  /\ ~Falsy(body.meta.projectName)
  /\ ~Nullish(body.meta.summary)
  /\ body.stack.type \in ProjectStackType

SpecGenerate == InitGenerate /\ [][NextGenerate]_vars

(***************************************************************************)
(* The result store on its own (routes/result.ts): storeResult, the sweep  *)
(* of the cleanup interval and GET /api/result/:id, with a clock that      *)
(* advances by a millisecond or by the maximal age.  The interval fires    *)
(* every hour; here a sweep may run at any time.                           *)
(***************************************************************************)
MaxAge == 24 * 60 * 60 * 1000

\* sweep which also removes an entry of exactly the maximal age
sweep_AtMaxAge(storage, time) ==
  {e \in storage : ~(time - e.timestamp >= MaxAge)}

\* The callback of the cleanup interval
sweep(storage, time) ==
  {e \in storage : ~(time - e.timestamp > MaxAge)}

ResultIds == {"proj_0", "proj_1"}
Readmes == {"# Shop", "# Blog"}

\* storeResult(id, readme)
StoreResult(id, readme) ==
  /\ resultStorage' = storeResult(resultStorage, id, readme, now)
  /\ pc' = "storeResult"
  /\ result' = [id |-> id, readme |-> readme]
  /\ UNCHANGED <<project, reply, requests, firestore, now, apiKey>>

\* The cleanup interval fires
Sweep ==
  /\ resultStorage' = sweep(resultStorage, now)
  /\ pc' = "sweep"
  /\ UNCHANGED <<project, result, reply, requests, firestore, now, apiKey>>

\* GET /api/result/:id
GetResult(id) ==
  /\ reply' = getResult(resultStorage, id)
  /\ pc' = "get-result"
  /\ result' = [id |-> id]
  /\ UNCHANGED <<project, generateVars>>

\* Time passes: a millisecond, at most MaxClock times in a row, or the
\* maximal age, once
Advance(d) ==
  /\ d = 1 => now % MaxAge < MaxClock
  /\ d = MaxAge => now < MaxAge
  /\ now' = now + d
  /\ pc' = "advance"
  /\ UNCHANGED <<project, result, reply, requests, resultStorage, firestore, apiKey>>

InitResult ==
  /\ project = defaultProject
  /\ pc = "idle"
  /\ result = NoResult
  /\ reply = NoReply
  /\ GenerateIdle
  /\ apiKey = Undefined

NextResult ==
  \/ \E id \in ResultIds, readme \in Readmes : StoreResult(id, readme)
  \/ Sweep
  \/ \E id \in ResultIds : GetResult(id)
  \/ \E d \in {1, MaxAge} : Advance(d)

SpecResult == InitResult /\ [][NextResult]_vars

(***************************************************************************)
(* The markdown routes (routes/markdowns.ts): GET, PUT and DELETE          *)
(* /api/markdowns/:id behind the verifyAuth hook, on the documents of      *)
(* users/{userId}/markdowns.  Each action is the stretch of hook and       *)
(* handler between two awaits; ops lists the storage calls a request made. *)
(***************************************************************************)
\* A stored document: userId and id are its path users/{userId}/markdowns/{id},
\* the other fields are its data
Document(userId, id, markdown) ==
  [ userId |-> userId, id |-> id, title |-> "Shop", markdown |-> markdown,
    projectName |-> "Shop", description |-> "", content |-> markdown,
    updatedAt |-> 0 ]

\* The documents stored at start-up: alice has d1, bob has d1 and d2
InitialDocuments ==
  { Document("alice", "d1", "# Alice 1"),
    Document("bob", "d1", "# Bob 1"),
    Document("bob", "d2", "# Bob 2") }

\* The ids of the paths explored; doc4 is the id of the first document added
DocIds == {"d1", "d2", "doc4"}
Methods == {"POST", "GET", "PUT", "DELETE"}
UpdateFields == {"projectName", "description", "markdown", "content"}

NoFields == [f \in UpdateFields |-> Undefined]

\* The bodies of the PUT requests explored: none, {}, and two with fields
UpdateBodies ==
  { Undefined, NoFields,
    [NoFields EXCEPT !.markdown = Str("# New")],
    [NoFields EXCEPT !.projectName = Str("Store"), !.content = Str("")] }

\* The bodies of the POST requests explored: none, one without title, one
\* with title and markdown, one with a project name besides
PostBodies ==
  { Undefined,
    [title |-> Undefined, markdown |-> Str("# P"), projectName |-> Undefined],
    [title |-> Str("T"), markdown |-> Str("# P"), projectName |-> Undefined],
    [title |-> Str("T"), markdown |-> Str("# P"), projectName |-> Str("P")] }

\* Only a PUT and a POST carry a body
BodiesOf(method) ==
  IF method = "PUT" THEN UpdateBodies
  ELSE IF method = "POST" THEN PostBodies
  ELSE {Undefined}

\* POST /api/markdowns has no :id
IdsOf(method) == IF method = "POST" THEN {""} ELSE DocIds

MarkdownHeaders ==
  { Undefined, Str("Bearer tok-alice"), Str("Bearer tok-bob"),
    Str("Bearer tok-expired") }

\* A request to the markdown routes that has not arrived yet
NoMarkdownRequest ==
  [ pc |-> "idle", method |-> "", authHeader |-> Undefined, id |-> "",
    body |-> Undefined, user |-> Undefined, existing |-> Undefined,
    updatedAt |-> 0, reply |-> NoReply, ops |-> <<>> ]

\* A call of the storage layer with the user and document it names
Op(name, userId, docId) == [op |-> name, userId |-> userId, docId |-> docId]

\* The document at users/{userId}/markdowns/{docId}, or null
DocumentAt(docs, userId, docId) ==
  IF \E doc \in docs : doc.userId = userId /\ doc.id = docId
  THEN CHOOSE doc \in docs : doc.userId = userId /\ doc.id = docId
  ELSE Null

\* { id: doc.id, ...doc.data() }
DocumentData(doc) == [f \in DOMAIN doc \ {"userId"} |-> doc[f]]

\* getMarkdownDocument(userId, docId): the id and the data of the document,
\* or null
getMarkdownDocument(docs, userId, docId) ==
  LET doc == DocumentAt(docs, userId, docId) IN
  IF doc = Null THEN Null ELSE DocumentData(doc)

\* updateData of the PUT handler: the fields of the body that are defined
UpdateData(body) == {f \in UpdateFields : body[f] # Undefined}

\* The document after update({...updateData, updatedAt})
Updated(doc, body, time) ==
  [f \in DOMAIN doc \cup UpdateData(body) |->
     IF f \in UpdateData(body) THEN body[f].v
     ELSE IF f = "updatedAt" THEN time ELSE doc[f]]

\* The data saveMarkdownDocument gets from the POST handler
PostData(body, time) ==
  [ title |-> body.title.v, markdown |-> body.markdown.v,
    projectName |-> IF Falsy(body.projectName) THEN body.title.v
                    ELSE body.projectName.v,
    updatedAt |-> time ]

\* The document saveMarkdownDocument adds for the POST handler
Added(docs, userId, body, time) ==
  [ userId |-> userId, id |-> NewDocId(docs),
    title |-> PostData(body, time).title,
    markdown |-> PostData(body, time).markdown,
    projectName |-> PostData(body, time).projectName,
    createdAt |-> time, updatedAt |-> time ]

\* The error reply of the catch block of a handler
HandlerError(method) ==
  IF method = "PUT"
  THEN [status |-> 500, error |-> "Failed to update markdown", code |-> "UPDATE_ERROR"]
  ELSE IF method = "DELETE"
  THEN [status |-> 500, error |-> "Failed to delete markdown", code |-> "DELETE_ERROR"]
  ELSE IF method = "POST"
  THEN [status |-> 500, error |-> "Failed to save markdown", code |-> "SAVE_ERROR"]
  ELSE [status |-> 500, error |-> "Failed to get markdown", code |-> "GET_ERROR"]

NotFound ==
  [status |-> 404, error |-> "Markdown document not found", code |-> "NOT_FOUND"]

\* verifyAuth up to await verifyIdToken(token)
MarkdownReceive(r, method, authHeader, id, body) ==
  /\ requests[r].pc = "idle"
  /\ LET req == [requests[r] EXCEPT !.method = method, !.authHeader = authHeader,
                                    !.id = id, !.body = body] IN
     requests' = [requests EXCEPT ![r] =
       IF HeaderRejected(authHeader)
       THEN Replied(req, [status |-> 401,
                          error |-> "Missing or invalid Authorization header",
                          code |-> "MISSING_AUTH"])
       ELSE [req EXCEPT !.pc = "verifying"]]
  /\ UNCHANGED <<resultStorage, firestore, now, apiKey, serviceVars>>

\* StorageUser which takes the user from the document id's first owner
StorageUser_OwnerOfId(req) ==
  IF \E doc \in InitialDocuments : doc.id = req.id
  THEN (CHOOSE doc \in InitialDocuments : doc.id = req.id).userId
  ELSE "bob"

\* The user id the handlers pass to the storage layer: request.user.uid
StorageUser(req) == req.user.uid

\* From the outcome of verifyIdToken to the first await of the handler:
\* saveMarkdownDocument in POST, getMarkdownDocument in the others
MarkdownVerified(r) ==
  /\ requests[r].pc = "verifying"
  /\ LET req == requests[r]
         decodedToken == verifyIdToken(Slice(req.authHeader.v, 7)) IN
     requests' = [requests EXCEPT ![r] =
       IF Threw(decodedToken)
       THEN Replied(req, [status |-> 401,
                          error |-> "Invalid authentication token",
                          code |-> "INVALID_TOKEN"])
       ELSE LET verified == [req EXCEPT !.user = [uid |-> decodedToken.val.uid]] IN
       IF req.method \in {"PUT", "POST"} /\ Nullish(req.body)
       THEN Replied(verified, HandlerError(req.method))
       ELSE IF req.method = "POST"
       THEN IF Falsy(req.body.title) \/ Falsy(req.body.markdown)
            THEN Replied(verified, [status |-> 400,
                                    error |-> "title and markdown are required",
                                    code |-> "VALIDATION_ERROR"])
            ELSE [verified EXCEPT
                    !.pc = "writing", !.updatedAt = now,
                    !.ops = Append(@, Op("add", StorageUser(verified), ""))]
       ELSE [verified EXCEPT
               !.pc = "reading",
               !.ops = Append(@, Op("get", StorageUser(verified), req.id))]]
  /\ UNCHANGED <<resultStorage, firestore, now, apiKey, serviceVars>>

\* From the outcome of getMarkdownDocument (answered or not) to the reply or
\* to the await of updateMarkdownDocument or deleteMarkdownDocument
MarkdownRead(r, answered) ==
  /\ requests[r].pc = "reading"
  /\ LET existing == getMarkdownDocument(firestore, StorageUser(requests[r]),
                                         requests[r].id)
         req == [requests[r] EXCEPT !.existing = existing] IN
     requests' = [requests EXCEPT ![r] =
       IF ~answered THEN Replied(requests[r], HandlerError(requests[r].method))
       ELSE IF existing = Null THEN Replied(req, NotFound)
       ELSE IF req.method = "GET"
       THEN Replied(req, [status |-> 200, success |-> TRUE, data |-> existing])
       ELSE IF req.method = "PUT" /\ UpdateData(req.body) = {}
       THEN Replied(req, [status |-> 400, error |-> "No fields to update",
                          code |-> "VALIDATION_ERROR"])
       ELSE [req EXCEPT
               !.pc = "writing",
               !.ops = Append(@, Op(IF req.method = "PUT" THEN "update" ELSE "delete",
                                    StorageUser(req), req.id))]]
  /\ UNCHANGED <<resultStorage, firestore, now, apiKey, serviceVars>>

\* From the outcome of saveMarkdownDocument, updateMarkdownDocument or
\* deleteMarkdownDocument (done or not) to the reply; update() of a document
\* that is gone fails
MarkdownWritten(r, written) ==
  /\ requests[r].pc = "writing"
  /\ LET req == requests[r]
         write == req.ops[Len(req.ops)]
         doc == DocumentAt(firestore, write.userId, write.docId)
         added == Added(firestore, write.userId, req.body, now) IN
     IF ~written \/ (req.method = "PUT" /\ doc = Null)
     THEN /\ UNCHANGED firestore
          /\ requests' = [requests EXCEPT ![r] =
               Replied(req, HandlerError(req.method))]
     ELSE IF req.method = "POST"
     THEN /\ firestore' = firestore \cup {added}
          /\ requests' = [requests EXCEPT ![r] =
               Replied(req, [status |-> 201, success |-> TRUE,
                             data |-> [id |-> added.id] @@
                                      PostData(req.body, req.updatedAt),
                             message |-> "Markdown saved successfully"])]
     ELSE IF req.method = "DELETE"
     THEN /\ firestore' = firestore \ {doc}
          /\ requests' = [requests EXCEPT ![r] =
               Replied(req, [status |-> 200, success |-> TRUE,
                             message |-> "Markdown deleted successfully"])]
     ELSE /\ firestore' = (firestore \ {doc}) \cup {Updated(doc, req.body, now)}
          /\ requests' = [requests EXCEPT ![r] =
               Replied(req, [status |-> 200, success |-> TRUE,
                             message |-> "Markdown updated successfully",
                             data |-> [success |-> TRUE, id |-> write.docId]])]
  /\ UNCHANGED <<resultStorage, now, apiKey, serviceVars>>

InitMarkdowns ==
  /\ project = defaultProject
  /\ pc = "idle"
  /\ result = NoResult
  /\ reply = NoReply
  /\ requests = [r \in Requests |-> NoMarkdownRequest]
  /\ resultStorage = {}
  /\ firestore = InitialDocuments
  /\ now = 0
  /\ apiKey = Undefined

NextMarkdowns ==
  \/ \E r \in Requests, method \in Methods, authHeader \in MarkdownHeaders :
       \E id \in IdsOf(method), body \in BodiesOf(method) :
         MarkdownReceive(r, method, authHeader, id, body)
  \/ \E r \in Requests : MarkdownVerified(r)
  \/ \E r \in Requests, answered \in BOOLEAN : MarkdownRead(r, answered)
  \/ \E r \in Requests, written \in BOOLEAN : MarkdownWritten(r, written)
  \/ Tick

SpecMarkdowns == InitMarkdowns /\ [][NextMarkdowns]_vars

TypeOK ==
  /\ pc \in {"idle", "detect-conflicts", "tests-plan", "isValid", "getAllIssues"}
  /\ reply.status \in {0, 200, 500}

(***************************************************************************)
(* Properties of the conflict detector.                                    *)
(***************************************************************************)
Buckets == {"conflicts", "warnings", "suggestions"}

\* A body with every nested object the ProjectSpec type requires
IsProjectSpec(p) ==
  /\ ~Nullish(p.auth)
  /\ ~Nullish(p.auth.security)
  /\ ~Nullish(p.stack.database)
  /\ ~Nullish(p.api.endpoints)
  /\ \A i \in 1..Len(p.entities) :
       ~Nullish(p.entities[i].relations) /\ ~Nullish(p.entities[i].fields)

Returned == ~Threw(result)

Has(issues, code) == \E i \in 1..Len(issues) : issues[i].code = code
HasWith(issues, code, type) ==
  \E i \in 1..Len(issues) : issues[i].code = code /\ issues[i].type = type

\* The (code, severity) pairs a bucket of an integrity result holds
Emitted(r, bucket) ==
  {[code |-> r[bucket][i].code, severity |-> r[bucket][i].type] :
     i \in 1..Len(r[bucket])}

\* The rule table of the specification, top to bottom
RuleTable ==
  << [code |-> "AUTH_NO_ROLES", severity |-> "error", bucket |-> "conflicts"],
     [code |-> "AUTH_NO_POLICY", severity |-> "warning", bucket |-> "suggestions"],
     [code |-> "API_NO_BACKEND", severity |-> "warning", bucket |-> "warnings"],
     [code |-> "FEATURES_NO_ENTITIES", severity |-> "warning", bucket |-> "suggestions"],
     [code |-> "E2E_NO_API", severity |-> "warning", bucket |-> "suggestions"],
     [code |-> "ENTITIES_NO_BACKEND", severity |-> "warning", bucket |-> "warnings"],
     [code |-> "RELATIONS_NO_BACKEND", severity |-> "warning", bucket |-> "warnings"],
     [code |-> "MICROSERVICES_MINIMAL", severity |-> "warning", bucket |-> "suggestions"],
     [code |-> "DATABASE_NOT_IMPLEMENTED", severity |-> "warning", bucket |-> "suggestions"],
     [code |-> "RATE_LIMIT_NO_AUTH", severity |-> "warning", bucket |-> "suggestions"],
     [code |-> "GRAPHQL_NO_BACKEND", severity |-> "error", bucket |-> "conflicts"],
     [code |-> "NO_TESTS_WITH_CI", severity |-> "warning", bucket |-> "suggestions"] >>

\* The predicate column of the table; noPolicy is the reading of
\* "passwordPolicy is null"
TablePredicate(code, p, noPolicy) ==
  CASE code = "AUTH_NO_ROLES" -> p.auth.enabled /\ p.auth.roles = <<>>
    [] code = "AUTH_NO_POLICY" ->
         /\ p.auth.enabled
         /\ Includes(p.auth.methods, "email/password")
         /\ p.auth.security.passwordPolicy \in noPolicy
    [] code = "API_NO_BACKEND" -> p.api.type # "none" /\ p.stack.type = "frontend"
    [] code = "FEATURES_NO_ENTITIES" -> p.features # <<>> /\ p.entities = <<>>
    [] code = "E2E_NO_API" -> p.tests.e2e /\ p.api.type = "none"
    [] code = "ENTITIES_NO_BACKEND" ->
         Len(p.entities) > 1 /\ p.stack.type = "frontend"
    [] code = "RELATIONS_NO_BACKEND" ->
         /\ \E i \in 1..Len(p.entities) : Len(p.entities[i].relations.items) >= 1
         /\ p.stack.type = "frontend"
    [] code = "MICROSERVICES_MINIMAL" ->
         p.stack.architecture = "microservices" /\ Len(p.entities) < 2
    [] code = "DATABASE_NOT_IMPLEMENTED" -> p.stack.database.type # Null
    [] code = "RATE_LIMIT_NO_AUTH" ->
         p.auth.security.rateLimiting /\ ~p.auth.enabled
    [] code = "GRAPHQL_NO_BACKEND" ->
         p.api.type = "graphql" /\ p.stack.type = "frontend"
    [] code = "NO_TESTS_WITH_CI" ->
         /\ ~p.tests.unit /\ ~p.tests.integration /\ ~p.tests.e2e
         /\ p.deployment.ci.enabled

\* The (code, severity) pairs the table puts in a bucket for p
Expected(p, bucket, noPolicy) ==
  {[code |-> RuleTable[i].code, severity |-> RuleTable[i].severity] :
     i \in {j \in 1..Len(RuleTable) :
              /\ RuleTable[j].bucket = bucket
              /\ TablePredicate(RuleTable[j].code, p, noPolicy)}}

ConformsToTable(noPolicy) ==
  (pc = "detect-conflicts" /\ IsProjectSpec(project)) =>
    /\ Returned
    /\ \A b \in Buckets : Emitted(result, b) = Expected(project, b, noPolicy)

\* C1 as stated: on every well-typed spec detectConflicts emits, in the
\* bucket and with the code and severity of its row, exactly the issues of
\* the rule table whose predicate holds, AUTH_NO_POLICY requiring
\* passwordPolicy to be null.
C1_TableAsStated == ConformsToTable({Null})

\* C1 amended: on every well-typed spec detectConflicts emits, in the bucket
\* and with the code and severity of its row, exactly the issues of the rule
\* table whose predicate holds, where AUTH_NO_POLICY's "passwordPolicy is
\* null" reads "passwordPolicy is null or the empty string".
C1_TableWithFalsyPolicy == ConformsToTable({Null, Str("")})

\* A call that filled the three buckets, with an empty-string policy
C1_Witness ==
  /\ pc = "detect-conflicts" /\ IsProjectSpec(project) /\ Returned
  /\ project.auth.security.passwordPolicy = Str("")
  /\ Has(result.suggestions, "AUTH_NO_POLICY")
  /\ Has(result.conflicts, "AUTH_NO_ROLES")
  /\ Has(result.warnings, "API_NO_BACKEND")

\* C2: conflicts holds AUTH_NO_ROLES with severity error exactly when
\* auth.enabled and roles is empty, and the code is in no other bucket; with
\* a non-empty roles list it is in no bucket at all.
C2_AuthNoRoles ==
  (pc = "detect-conflicts" /\ Returned) =>
    /\ HasWith(result.conflicts, "AUTH_NO_ROLES", "error")
         <=> (project.auth.enabled /\ Len(project.auth.roles) = 0)
    /\ ~HasWith(result.conflicts, "AUTH_NO_ROLES", "warning")
    /\ ~Has(result.warnings, "AUTH_NO_ROLES")
    /\ ~Has(result.suggestions, "AUTH_NO_ROLES")
    /\ Len(project.auth.roles) > 0 =>
         \A b \in Buckets : ~Has(result[b], "AUTH_NO_ROLES")

C2_Witness ==
  /\ pc = "detect-conflicts" /\ Returned
  /\ project.auth.enabled /\ project.auth.roles = <<>>
  /\ HasWith(result.conflicts, "AUTH_NO_ROLES", "error")

\* C3: warnings holds API_NO_BACKEND with severity warning exactly when
\* api.type is not 'none' and stack.type is 'frontend'.
C3_ApiNoBackend ==
  (pc = "detect-conflicts" /\ Returned) =>
    /\ HasWith(result.warnings, "API_NO_BACKEND", "warning")
         <=> (project.api.type # "none" /\ project.stack.type = "frontend")
    /\ ~HasWith(result.warnings, "API_NO_BACKEND", "error")

C3_Witness ==
  /\ pc = "detect-conflicts" /\ Returned
  /\ project.api.type = "rest" /\ project.stack.type = "frontend"
  /\ HasWith(result.warnings, "API_NO_BACKEND", "warning")

\* C4: suggestions holds FEATURES_NO_ENTITIES exactly when features is
\* non-empty and entities is empty.
C4_FeaturesNoEntities ==
  (pc = "detect-conflicts" /\ Returned) =>
    (Has(result.suggestions, "FEATURES_NO_ENTITIES")
       <=> (Len(project.features) > 0 /\ Len(project.entities) = 0))

C4_Witness ==
  /\ pc = "detect-conflicts" /\ Returned
  /\ Len(project.features) > 0 /\ Len(project.entities) = 0
  /\ Has(result.suggestions, "FEATURES_NO_ENTITIES")

\* C5: suggestions holds E2E_NO_API exactly when tests.e2e is true and
\* api.type is 'none'.
C5_E2eNoApi ==
  (pc = "detect-conflicts" /\ Returned) =>
    (Has(result.suggestions, "E2E_NO_API")
       <=> (project.tests.e2e /\ project.api.type = "none"))

C5_Witness ==
  /\ pc = "detect-conflicts" /\ Returned
  /\ project.tests.e2e /\ project.api.type = "none"
  /\ Has(result.suggestions, "E2E_NO_API")

\* AUTH_NO_POLICY as the detector reports it: absent, or once in suggestions
\* with severity warning
PolicyEmitted ==
  /\ HasWith(result.suggestions, "AUTH_NO_POLICY", "warning")
  /\ ~Has(result.conflicts, "AUTH_NO_POLICY")
  /\ ~Has(result.warnings, "AUTH_NO_POLICY")
PolicyAbsent == \A b \in Buckets : ~Has(result[b], "AUTH_NO_POLICY")

EmailPasswordEnabled ==
  project.auth.enabled /\ Includes(project.auth.methods, "email/password")

\* C6 as stated: with passwordPolicy a string or null, AUTH_NO_POLICY is
\* emitted (warning, suggestions) exactly when auth.enabled, methods contains
\* "email/password" and passwordPolicy is null; it is not emitted for any
\* non-null string, the empty string included.
C6_PolicyNullOnly ==
  (pc = "detect-conflicts" /\ IsProjectSpec(project) /\ Returned) =>
    /\ PolicyEmitted \/ PolicyAbsent
    /\ PolicyEmitted <=>
         (EmailPasswordEnabled /\ project.auth.security.passwordPolicy = Null)

\* C6 amended: with passwordPolicy a string or null, AUTH_NO_POLICY is
\* emitted (warning, suggestions) exactly when auth.enabled, methods contains
\* "email/password" and passwordPolicy is null or the empty string; it is not
\* emitted for any non-empty string.
C6_PolicyNullOrEmpty ==
  (pc = "detect-conflicts" /\ IsProjectSpec(project) /\ Returned) =>
    /\ PolicyEmitted \/ PolicyAbsent
    /\ PolicyEmitted <=>
         (EmailPasswordEnabled
            /\ project.auth.security.passwordPolicy \in {Null, Str("")})
    /\ (project.auth.security.passwordPolicy.t = "string"
          /\ project.auth.security.passwordPolicy.v # "") => PolicyAbsent

C6_Witness ==
  /\ pc = "detect-conflicts" /\ IsProjectSpec(project) /\ Returned
  /\ EmailPasswordEnabled
  /\ project.auth.security.passwordPolicy = Str("")
  /\ PolicyEmitted

\* C7: isValid(spec) is true exactly when the conflicts bucket of
\* detectConflicts(spec) is empty, that is when neither of the two error
\* rules holds; warnings and suggestions do not enter.
C7_IsValid ==
  (pc = "isValid" /\ ~Threw(result)) =>
    /\ result.val <=> (detectConflicts(project).conflicts = <<>>)
    /\ result.val <=>
         /\ ~(project.auth.enabled /\ Len(project.auth.roles) = 0)
         /\ ~(project.api.type = "graphql" /\ project.stack.type = "frontend")

\* A valid spec with warnings and suggestions
C7_Witness ==
  /\ pc = "isValid" /\ ~Threw(result)
  /\ result.val = TRUE
  /\ detectConflicts(project).warnings # <<>>
  /\ detectConflicts(project).suggestions # <<>>

\* Position of an issue code in the rule table
RECURSIVE RowFrom(_, _)
RowFrom(code, i) ==
  IF i > Len(RuleTable) THEN 0
  ELSE IF RuleTable[i].code = code THEN i ELSE RowFrom(code, i + 1)
Row(code) == RowFrom(code, 1)
BucketOf(code) == RuleTable[Row(code)].bucket

\* C8: getAllIssues(spec) is the conflicts list followed by the warnings
\* list, without the suggestions; its length is conflicts.length +
\* warnings.length; within each part the issues are in table order.
C8_GetAllIssues ==
  (pc = "getAllIssues" /\ ~Threw(result)) =>
    LET r == detectConflicts(project)
        all == result.val IN
    /\ all = r.conflicts \o r.warnings
    /\ Len(all) = Len(r.conflicts) + Len(r.warnings)
    /\ \A i \in 1..Len(all) : BucketOf(all[i].code) # "suggestions"
    /\ \A i, j \in 1..Len(all) :
         i < j =>
           \/ BucketOf(all[i].code) = "conflicts"
                /\ BucketOf(all[j].code) = "warnings"
           \/ BucketOf(all[i].code) = BucketOf(all[j].code)
                /\ Row(all[i].code) < Row(all[j].code)

\* Both errors and the three warnings at once
C8_Witness ==
  /\ pc = "getAllIssues" /\ ~Threw(result)
  /\ Len(result.val) = 5
  /\ detectConflicts(project).suggestions # <<>>

\* C9: in a result of detectConflicts no issue code occurs twice across
\* the three buckets, however many entities, relations and features the
\* spec has.
C9_CodeAtMostOnce ==
  (pc = "detect-conflicts" /\ Returned) =>
    LET all == result.conflicts \o result.warnings \o result.suggestions IN
    \A i, j \in 1..Len(all) : i # j => all[i].code # all[j].code

\* Several entities with relations, and the relations rule fired
C9_Witness ==
  /\ pc = "detect-conflicts" /\ Returned
  /\ Len(project.entities) > 1
  /\ \A i \in 1..Len(project.entities) :
       Len(project.entities[i].relations.items) > 0
  /\ Len(project.entities[1].relations.items) > 1
  /\ Len(project.features) > 1
  /\ Has(result.warnings, "RELATIONS_NO_BACKEND")

\* C10 as stated: detectConflicts and generateTestsPlan never raise; with a
\* nested object absent or null the call still returns a result and the
\* route answers 200.
C10_NeverRaises ==
  pc \in {"detect-conflicts", "tests-plan"} =>
    /\ ~Threw(result)
    /\ reply.status = 200

(***************************************************************************)
(* Properties of the tests planner.                                        *)
(***************************************************************************)
Planned == pc = "tests-plan" /\ Returned

\* The number of cases of tests with the given name
CountNamed(tests, name) ==
  Cardinality({i \in 1..Len(tests) : tests[i].name = name})

\* C17: a plan section is empty when its tests flag is false: integration
\* gates integrationTests, e2e gates e2eTests, manualChecklists gates
\* manualChecks.
C17_GatedSectionsEmpty ==
  Planned =>
    /\ (project.tests.integration = FALSE => result.integrationTests = <<>>)
    /\ (project.tests.e2e = FALSE => result.e2eTests = <<>>)
    /\ (project.tests.manualChecklists = FALSE => result.manualChecks = <<>>)

\* Every flag is off for a project that would fill every section
C17_Witness ==
  /\ Planned
  /\ project.tests.integration = FALSE
  /\ project.tests.e2e = FALSE
  /\ project.tests.manualChecklists = FALSE
  /\ project.api.type = "rest" /\ Len(project.entities) > 0
  /\ project.stack.type = "fullstack" /\ Len(project.features) > 0
  /\ project.auth.enabled
  /\ result.integrationTests = <<>>
  /\ result.e2eTests = <<>>
  /\ result.manualChecks = <<>>
  /\ result.unitTests # <<>>

\* C18: unitTests holds the valid-credentials and the invalid-credentials
\* case exactly when auth.enabled, and the OAuth case exactly when
\* auth.enabled and auth.methods contains "OAuth".
C18_AuthCases ==
  Planned =>
    LET oauth == project.auth.enabled /\ Includes(project.auth.methods, "OAuth") IN
    /\ CountNamed(result.unitTests, "Authentication - Valid Credentials")
         = IF project.auth.enabled THEN 1 ELSE 0
    /\ CountNamed(result.unitTests, "Authentication - Invalid Credentials")
         = IF project.auth.enabled THEN 1 ELSE 0
    /\ CountNamed(result.unitTests, "OAuth Integration")
         = IF oauth THEN 1 ELSE 0

\* Auth is disabled while its methods list OAuth: no auth case is planned
C18_Witness ==
  /\ Planned
  /\ ~project.auth.enabled
  /\ Includes(project.auth.methods, "OAuth")
  /\ Len(project.entities) > 0
  /\ CountNamed(result.unitTests, "OAuth Integration") = 0
  /\ CountNamed(result.unitTests, "Authentication - Valid Credentials") = 0

\* s ends with suffix
EndsWith(s, suffix) ==
  /\ Len(s) >= Len(suffix)
  /\ SubSeq(s, Len(s) - Len(suffix) + 1, Len(s)) = suffix

\* s.includes(sub)
Contains(s, sub) ==
  \E i \in 1..(Len(s) - Len(sub) + 1) : SubSeq(s, i, i + Len(sub) - 1) = sub

IsUniquenessCase(test) == EndsWith(test.name, " - Unique Constraint")

HasUniqueField(entity) == Len(FilterUnique(entity.fields.items)) > 0

\* The positions in unitTests of the uniqueness cases
UniquenessCases ==
  {i \in 1..Len(result.unitTests) : IsUniquenessCase(result.unitTests[i])}

\* C19: unitTests holds as many uniqueness-constraint cases as there are
\* entities with a unique field, and the case of an entity directly follows
\* the validation case of that entity.
C19_OneUniquenessCasePerEntity ==
  Planned =>
    /\ Cardinality(UniquenessCases)
         = Cardinality({k \in 1..Len(project.entities) :
                          HasUniqueField(project.entities[k])})
    /\ \A i \in UniquenessCases :
         /\ i > 1
         /\ \E k \in 1..Len(project.entities) :
              /\ HasUniqueField(project.entities[k])
              /\ result.unitTests[i].name
                   = project.entities[k].name \o " - Unique Constraint"
              /\ result.unitTests[i - 1].name
                   = project.entities[k].name \o " - Validation"

\* Two entities, one with two unique fields and one with none: one case
C19_Witness ==
  /\ Planned
  /\ Len(project.entities) = 2
  /\ Len(FilterUnique(project.entities[1].fields.items)) = 2
  /\ ~HasUniqueField(project.entities[2])
  /\ Cardinality(UniquenessCases) = 1

\* The text of a case names the field
NamedIn(test, field) ==
  \/ Contains(test.name, field.name)
  \/ Contains(test.description, field.name)
  \/ Contains(test.expectedResult, field.name)
  \/ \E j \in 1..Len(test.steps) : Contains(test.steps[j], field.name)

\* The text of a case other than its description names the field
NamedOutsideDescription(test, field) ==
  \/ Contains(test.name, field.name)
  \/ Contains(test.expectedResult, field.name)
  \/ \E j \in 1..Len(test.steps) : Contains(test.steps[j], field.name)

\* The uniqueness case of entity k in unitTests (the entity has one)
UniquenessCaseOf(k) ==
  LET i == CHOOSE i \in UniquenessCases :
             result.unitTests[i].name
               = project.entities[k].name \o " - Unique Constraint" IN
  result.unitTests[i]

\* C20 as stated: the uniqueness case of an entity names its first unique
\* field and no other unique field, in none of name, description, steps and
\* expectedResult.
C20_OnlyFirstUniqueNamed ==
  Planned =>
    \A k \in 1..Len(project.entities) :
      LET uniqueFields == FilterUnique(project.entities[k].fields.items) IN
      HasUniqueField(project.entities[k]) =>
        /\ NamedIn(UniquenessCaseOf(k), uniqueFields[1])
        /\ \A j \in 2..Len(uniqueFields) :
             ~NamedIn(UniquenessCaseOf(k), uniqueFields[j])

\* C20 amended: the steps of the uniqueness case name the first unique field
\* and name, steps and expectedResult name no other unique field; the
\* description lists every unique field of the entity, in field order.
C20_FirstUniqueInSteps ==
  Planned =>
    \A k \in 1..Len(project.entities) :
      LET uniqueFields == FilterUnique(project.entities[k].fields.items)
          test == UniquenessCaseOf(k) IN
      HasUniqueField(project.entities[k]) =>
        /\ test.steps[2]
             = "Attempt to create duplicate with same " \o uniqueFields[1].name
        /\ \A j \in 2..Len(uniqueFields) :
             ~NamedOutsideDescription(test, uniqueFields[j])
        /\ test.description
             = "Test unique constraint on " \o JoinNames(uniqueFields)
        /\ \A j \in 1..Len(uniqueFields) :
             Contains(test.description, uniqueFields[j].name)

\* An entity with the unique fields email and slug: the step names email,
\* the description names both
C20_Witness ==
  /\ Planned
  /\ \E k \in 1..Len(project.entities) :
       LET uniqueFields == FilterUnique(project.entities[k].fields.items) IN
       /\ Len(uniqueFields) = 2
       /\ Contains(UniquenessCaseOf(k).steps[2], uniqueFields[1].name)
       /\ Contains(UniquenessCaseOf(k).description, uniqueFields[2].name)
       /\ ~Contains(UniquenessCaseOf(k).steps[2], uniqueFields[2].name)

(***************************************************************************)
(* Properties of the generation route.                                     *)
(***************************************************************************)
Arrived(r) == requests[r].pc # "idle"
Done(r) == requests[r].pc = "done"

\* The request made one of the calls
Called(r, fns) == requests[r].calls \cap fns # {}

\* C11: a body that violates the minimum shape (meta.projectName empty or
\* missing, meta.summary missing, stack.type outside the enum) is answered
\* with a 4xx, never a 5xx, and neither detectConflicts nor the generation
\* is called for it.
C11_ShapeRejectedFirst ==
  \A r \in Requests :
    Arrived(r) /\ ~generateRequestSchema(requests[r].body) =>
      /\ ~Called(r, {"detectConflicts", "buildReadme", "chat.completions.create"})
      /\ Done(r) => requests[r].reply.status \in 400..499

\* The project name is missing or empty in the body
NameMissing(body) ==
  \/ body = Undefined
  \/ body.meta = Undefined
  \/ body.meta.projectName \in {Undefined, Null, Str("")}

\* The request fails at the boundary: no Bearer header, a token that is not
\* verified, or no project name
BoundaryRejected(r) ==
  \/ HeaderRejected(requests[r].authHeader)
  \/ Threw(verifyIdToken(Slice(requests[r].authHeader.v, 7)))
  \/ NameMissing(requests[r].body)

\* C12: a request rejected at the boundary gets an error reply (401 or 400)
\* and makes no generation call, no result-store write and no persistence
\* call; while only such requests arrived, both stores stay empty.
C12_BoundaryRejections ==
  /\ \A r \in Requests :
       Arrived(r) /\ BoundaryRejected(r) =>
         /\ requests[r].pc \in {"verifying", "done"}
         /\ requests[r].calls = {}
         /\ Done(r) => /\ requests[r].reply.status \in {400, 401}
                       /\ "error" \in DOMAIN requests[r].reply
                       /\ "readme" \notin DOMAIN requests[r].reply
  /\ (\A r \in Requests : Arrived(r) => BoundaryRejected(r)) =>
       resultStorage = {} /\ firestore = {}

\* One request with a verified token and no project name got 400, the other
\* with an unverified token got 401
C12_Witness ==
  \E r1, r2 \in Requests :
    /\ Done(r1) /\ requests[r1].userId = "alice"
    /\ NameMissing(requests[r1].body)
    /\ requests[r1].reply.status = 400
    /\ Done(r2) /\ ~HeaderRejected(requests[r2].authHeader)
    /\ requests[r2].reply.status = 401
    /\ requests[r2].reply.code = "INVALID_TOKEN"
    /\ resultStorage = {} /\ firestore = {}

\* The upstream request failed or came back without content
UpstreamFailed(upstream) ==
  \/ upstream.t \in {"APIError", "Error"}
  \/ upstream.content \in {Undefined, Null, Str("")}

\* The generation of the request failed: no credential, an upstream error
\* or an empty content
GenerationFailed(r) ==
  /\ Called(r, {"buildReadme"})
  /\ \/ apiKey \in {Undefined, Null, Str("")}
     \/ /\ requests[r].upstream # NoResult
        /\ UpstreamFailed(requests[r].upstream)

\* C13: when the generation fails the reply is an error without a readme,
\* and neither the result store nor the persistence receives anything.
C13_GenerationFailure ==
  /\ \A r \in Requests :
       GenerationFailed(r) =>
         /\ Done(r)
         /\ requests[r].reply.status = 500
         /\ "error" \in DOMAIN requests[r].reply
         /\ "readme" \notin DOMAIN requests[r].reply
         /\ ~Called(r, {"storeResult", "saveMarkdownDocument"})
  /\ (\A r \in Requests : Called(r, {"buildReadme"}) => GenerationFailed(r)) =>
       resultStorage = {} /\ firestore = {}

\* One generation failed with an upstream error, the other with an empty
\* content
C13_Witness ==
  \E r1, r2 \in Requests :
    /\ requests[r1].upstream = ApiError("429 Rate limit reached")
    /\ requests[r2].upstream = Response(Str(""))
    /\ requests[r1].reply.status = 500
    /\ requests[r2].reply.status = 500
    /\ resultStorage = {} /\ firestore = {}

\* C14: when the generation succeeded and the persistence fails, the reply
\* is a 200 with readme, integrity, id and a warning and without docId, and
\* the result store returns that readme under that id.
C14_DegradedSuccess ==
  \A r \in Requests :
    Done(r) /\ requests[r].persisted = "failed" =>
      LET rep == requests[r].reply IN
      /\ rep.status = 200
      /\ rep.readme = requests[r].readme
      /\ rep.integrity = detectConflicts(requests[r].body)
      /\ rep.id = requests[r].id
      /\ rep.warning = "README generated but not saved to database"
      /\ "docId" \notin DOMAIN rep
      /\ getResult(resultStorage, rep.id).status = 200
      /\ getResult(resultStorage, rep.id).readme = rep.readme

\* C15: the ids under which two generations are stored differ, also when
\* both are stored at the same millisecond, and each readme stays in the
\* result store under its id.
C15_FreshIds ==
  /\ \A r1, r2 \in Requests :
       /\ r1 # r2
       /\ Called(r1, {"storeResult"})
       /\ Called(r2, {"storeResult"})
       => requests[r1].id # requests[r2].id
  /\ \A r \in Requests :
       Called(r, {"storeResult"}) =>
         getResult(resultStorage, requests[r].id).readme = requests[r].readme

(***************************************************************************)
(* Further properties of the tests planner.                                *)
(***************************************************************************)
Names(tests) == [i \in 1..Len(tests) |-> tests[i].name]

\* The names of the endpoint cases the endpoints call for, in their order
RECURSIVE EndpointCaseNames(_)
EndpointCaseNames(endpoints) ==
  IF endpoints = <<>> THEN <<>>
  ELSE (IF Includes(Head(endpoints).methods, "GET")
        THEN <<"GET " \o Head(endpoints).path>> ELSE <<>>)
       \o (IF Includes(Head(endpoints).methods, "POST")
           THEN <<"POST " \o Head(endpoints).path>> ELSE <<>>)
       \o EndpointCaseNames(Tail(endpoints))

IsEndpointCase(test) ==
  StartsWith(test.name, "GET ") \/ StartsWith(test.name, "POST ")

\* C21: unitTests holds endpoint cases only when api.type is "rest"; then
\* each endpoint gives a GET case iff its methods contain GET and a POST
\* case iff they contain POST, in the order of api.endpoints, and these
\* cases come after every auth and entity case.
C21_EndpointCases ==
  Planned =>
    LET expected == IF project.api.type = "rest"
                    THEN EndpointCaseNames(project.api.endpoints.items)
                    ELSE <<>>
        others == Len(result.unitTests) - Len(expected) IN
    /\ others >= 0
    /\ \A i \in 1..others : ~IsEndpointCase(result.unitTests[i])
    /\ \A i \in 1..Len(expected) :
         result.unitTests[others + i].name = expected[i]

\* A rest api with an endpoint of both methods after an endpoint of neither,
\* behind auth and entity cases: exactly the GET and the POST case, last
C21_Witness ==
  /\ Planned
  /\ project.api.type = "rest"
  /\ project.auth.enabled /\ Len(project.entities) > 0
  /\ Len(project.api.endpoints.items) = 2
  /\ project.api.endpoints.items[1].methods = <<"DELETE">>
  /\ project.api.endpoints.items[2].methods = <<"POST", "GET">>
  /\ Len(result.unitTests) > 2
  /\ result.unitTests[Len(result.unitTests) - 1].name = "GET /posts"
  /\ result.unitTests[Len(result.unitTests)].name = "POST /posts"

\* C22: e2eTests is empty when tests.e2e is false or the stack is backend;
\* otherwise it is the registration-and-login case iff auth.enabled, then
\* one case per feature in the order of features, then the main user
\* journey case iff there is a feature.
C22_E2eCases ==
  Planned =>
    Names(result.e2eTests)
      = IF project.tests.e2e = FALSE \/ project.stack.type = "backend"
        THEN <<>>
        ELSE (IF project.auth.enabled
              THEN <<"User Registration and Login Flow">> ELSE <<>>)
             \o [i \in 1..Len(project.features) |->
                   "Feature: " \o project.features[i].name]
             \o (IF Len(project.features) > 0
                 THEN <<"Main User Journey">> ELSE <<>>)

\* Two features with auth: four cases; and the plan of a backend stack
\* with tests.e2e on would be empty
C22_Witness ==
  /\ Planned
  /\ project.tests.e2e /\ project.stack.type = "fullstack"
  /\ project.auth.enabled /\ Len(project.features) = 2
  /\ Len(result.e2eTests) = 4
  /\ result.e2eTests[2].name = "Feature: User Management"
  /\ result.e2eTests[4].name = "Main User Journey"

\* C23: with tests.integration on, integrationTests holds one CRUD-flow
\* case if api.type is not "none" and there is an entity, else none,
\* however many entities and endpoints there are.
C23_OneCrudCase ==
  Planned /\ project.tests.integration =>
    CountNamed(result.integrationTests, "Full API Flow - CRUD Operations")
      = IF project.api.type # "none" /\ Len(project.entities) > 0
        THEN 1 ELSE 0

\* Two entities and two endpoints behind a graphql api: one CRUD-flow case
C23_Witness ==
  /\ Planned /\ project.tests.integration
  /\ project.api.type = "graphql"
  /\ Len(project.entities) = 2
  /\ Len(project.api.endpoints.items) = 2
  /\ CountNamed(result.integrationTests, "Full API Flow - CRUD Operations") = 1

IsProtectedCase(test) == StartsWith(test.name, "Protected Endpoint - ")

\* C24: with tests.integration on, the Protected Endpoint cases of
\* integrationTests are one per endpoint with authRequired, in the order of
\* api.endpoints, if auth.enabled, and none otherwise, whatever api.type is.
C24_ProtectedCases ==
  Planned /\ project.tests.integration =>
    LET eps == FilterAuthRequired(project.api.endpoints.items) IN
    Names(SelectSeq(result.integrationTests, IsProtectedCase))
      = IF project.auth.enabled
        THEN [i \in 1..Len(eps) |-> "Protected Endpoint - " \o eps[i].path]
        ELSE <<>>

\* An api of type none with two protected endpoints and auth: two cases
C24_Witness ==
  /\ Planned /\ project.tests.integration
  /\ project.auth.enabled
  /\ project.api.type = "none"
  /\ Len(FilterAuthRequired(project.api.endpoints.items)) = 2
  /\ Names(result.integrationTests)
       = <<"Protected Endpoint - /users", "Protected Endpoint - /posts">>

IsRelationshipCase(test) == EndsWith(test.name, " Relationship")

\* The entity has a relation to the entity of that name
RelatedTo(entity, name) ==
  \E i \in 1..Len(entity.relations.items) :
    entity.relations.items[i].target = name

\* C25: with tests.integration on, integrationTests holds a relationship
\* case iff there are two entities and the first has a relation whose
\* target is the name of the second; there is never more than one, and no
\* other relation produces one.
C25_RelationshipCase ==
  Planned /\ project.tests.integration =>
    Names(SelectSeq(result.integrationTests, IsRelationshipCase))
      = IF /\ Len(project.entities) >= 2
           /\ RelatedTo(project.entities[1], project.entities[2].name)
        THEN <<project.entities[1].name \o " - " \o project.entities[2].name
                 \o " Relationship">>
        ELSE <<>>

\* Three entities, the second related to the first and the third to the
\* second, the first to the third only: no relationship case
C25_Witness ==
  /\ Planned /\ project.tests.integration
  /\ Len(project.entities) = 3
  /\ RelatedTo(project.entities[2], project.entities[1].name)
  /\ RelatedTo(project.entities[3], project.entities[2].name)
  /\ RelatedTo(project.entities[1], project.entities[3].name)
  /\ ~RelatedTo(project.entities[1], project.entities[2].name)
  /\ SelectSeq(result.integrationTests, IsRelationshipCase) = <<>>

\* C26: with tests.manualChecklists on, manualChecks is the cross-browser
\* check, the performance-baseline check, the security-audit check iff
\* auth.enabled, the accessibility check, then one data-integrity check per
\* entity in the order of entities.
C26_ManualChecks ==
  Planned /\ project.tests.manualChecklists =>
    /\ Names(result.manualChecks)
         = <<"Cross-Browser Compatibility", "Performance Baseline">>
           \o (IF project.auth.enabled THEN <<"Security Audit">> ELSE <<>>)
           \o <<"Accessibility Review">>
           \o [i \in 1..Len(project.entities) |->
                 project.entities[i].name \o " - Data Integrity"]
    /\ Len(result.manualChecks)
         = 3 + (IF project.auth.enabled THEN 1 ELSE 0) + Len(project.entities)

\* Two entities without auth: five checks, the accessibility check third
C26_Witness ==
  /\ Planned /\ project.tests.manualChecklists
  /\ ~project.auth.enabled
  /\ Len(project.entities) = 2
  /\ Len(result.manualChecks) = 5
  /\ result.manualChecks[3].name = "Accessibility Review"
  /\ result.manualChecks[5].name = "Post - Data Integrity"

\* C28: the plan does not depend on tests.unit: the plan of the project is
\* the plan of the project with tests.unit negated, so the unit cases are
\* planned also when tests.unit is false.
C28_UnitFlagIgnored ==
  Planned =>
    result = generateTestsPlan([project EXCEPT !.tests.unit = ~@])

\* tests.unit is off and the unit cases of auth, entity and endpoint are
\* planned
C28_Witness ==
  /\ Planned
  /\ project.tests.unit = FALSE
  /\ project.auth.enabled /\ Len(project.entities) > 0
  /\ project.api.type = "rest"
  /\ \E i \in 1..Len(result.unitTests) : IsEndpointCase(result.unitTests[i])
  /\ result.unitTests[1].name = "Authentication - Valid Credentials"

(***************************************************************************)
(* Properties of the generation call.                                      *)
(***************************************************************************)
\* callGpt was called for the request: buildReadme got past buildPrompt
CallGptCalled(r) ==
  Called(r, {"buildReadme"}) /\ ~Threw(buildPrompt(requests[r].body))

CredentialMissing == apiKey \in {Undefined, Null, Str("")}

\* C27: without a credential callGpt fails with the not-configured error
\* and sends no upstream request; with one it sends one request and no more,
\* fails with another error if the request fails or comes back without
\* content, and otherwise returns the content as it came.
C27_CallGpt ==
  \A r \in Requests :
    CallGptCalled(r) =>
      LET req == requests[r] IN
      IF CredentialMissing
      THEN /\ req.sent = 0
           /\ ~Called(r, {"chat.completions.create"})
           /\ req.upstream = NoResult
           /\ Done(r)
           /\ req.reply.status = 500
           /\ Contains(req.reply.error, "OPENAI_API_KEY is not configured")
      ELSE /\ req.sent = 1
           /\ req.upstream # NoResult =>
                IF UpstreamFailed(req.upstream)
                THEN /\ Done(r)
                     /\ req.reply.status = 500
                     /\ ~Contains(req.reply.error, "OPENAI_API_KEY is not configured")
                     /\ req.readme = ""
                ELSE /\ req.readme = req.upstream.content.v
                     /\ req.pc \in {"saving", "done"}

\* Without a credential a well-formed request ended in the not-configured
\* error
C27_Witness ==
  \E r \in Requests :
    /\ CredentialMissing
    /\ CallGptCalled(r)
    /\ requests[r].sent = 0
    /\ requests[r].reply.status = 500
    /\ requests[r].body = Shop

(***************************************************************************)
(* Properties of the result store.                                         *)
(***************************************************************************)
Stored(id) == {e \in resultStorage : e.id = id}

\* After storeResult(id, readme) the store holds readme under id, and
\* nothing else under id
StoreHoldsLatest ==
  pc = "storeResult" =>
    Stored(result.id)
      = {[id |-> result.id, readme |-> result.readme, timestamp |-> now]}

\* GET answers from the entry under the id, whatever its age, or with 404
GetServesEntry ==
  pc = "get-result" =>
    IF Stored(result.id) = {}
    THEN reply.status = 404
    ELSE /\ reply.status = 200
         /\ \E e \in Stored(result.id) :
              reply.readme = e.readme /\ reply.timestamp = e.timestamp

\* A sweep removes the entries older than the maximal age and no other
SweepRemovesOld ==
  pc' = "sweep" =>
    resultStorage' = {e \in resultStorage : now - e.timestamp <= MaxAge}

\* An entry leaves the store only by a sweep or by a store under its id
OnlySweepRemoves ==
  \A e \in resultStorage :
    e \notin resultStorage' =>
      \/ pc' = "sweep"
      \/ pc' = "storeResult" /\ result'.id = e.id

\* C29: after storeResult(id, readme) a GET of id returns the latest readme
\* stored under id until a sweep removes the entry; a sweep removes exactly
\* the entries older than 24 hours; GET does not check the age, and an id
\* never stored or swept gives 404.
C29_ResultStore ==
  /\ [](StoreHoldsLatest /\ GetServesEntry)
  /\ [][SweepRemovesOld /\ OnlySweepRemoves]_vars

\* An entry older than 24 hours is served by GET: no sweep ran yet
C29_Witness ==
  /\ pc = "get-result"
  /\ reply.status = 200
  /\ now - reply.timestamp > MaxAge

(***************************************************************************)
(* Properties of the markdown routes.                                      *)
(***************************************************************************)
\* The request carries a token that is verified
Verified(r) ==
  /\ Arrived(r)
  /\ ~HeaderRejected(requests[r].authHeader)
  /\ ~Threw(verifyIdToken(Slice(requests[r].authHeader.v, 7)))

\* The uid of the verified token of the request
TokenUid(r) == verifyIdToken(Slice(requests[r].authHeader.v, 7)).val.uid

DocsOf(docs, userId) == {doc \in docs : doc.userId = userId}

Wrote(r) ==
  \E i \in 1..Len(requests[r].ops) : requests[r].ops[i].op \in {"update", "delete"}

\* Every storage call of a request names the uid of its verified token and
\* the id of its path, and a request without such a token makes no call
OwnCollectionOnly ==
  \A r \in Requests :
    /\ ~Verified(r) => requests[r].ops = <<>>
    /\ Verified(r) =>
         \A i \in 1..Len(requests[r].ops) :
           /\ requests[r].ops[i].userId = TokenUid(r)
           /\ requests[r].ops[i].docId = requests[r].id

\* The lookup of a request left reading: answered or not
LookedUp(r) == requests[r].pc = "reading" /\ requests'[r].pc # "reading"

\* The document of the id of the request in the collection of its user
OwnDocument(r) == DocumentAt(firestore, TokenUid(r), requests[r].id)

\* A GET answers 200 with the id and the data of the document of that id in
\* the user's own collection
ReadsOwnDocument ==
  \A r \in Requests :
    /\ LookedUp(r)
    /\ requests[r].method = "GET"
    /\ requests'[r].reply.status = 200
    => /\ OwnDocument(r) # Null
       /\ requests'[r].reply.data = DocumentData(OwnDocument(r))

\* A request whose lookup found no document got 404 and wrote nothing
AbsentGives404 ==
  \A r \in Requests :
    requests[r].existing = Null =>
      /\ Done(r)
      /\ requests[r].reply.status = 404
      /\ ~Wrote(r)

\* The lookup of a request finds nothing iff the collection of its user
\* holds no document of that id
LookupInOwnCollection ==
  \A r \in Requests :
    LookedUp(r) => (requests'[r].existing = Null <=> OwnDocument(r) = Null)

\* As LookupInOwnCollection, for the lookups that are answered; one that is
\* not answered ends the request with 500 and without a write
LookupAnsweredInOwnCollection ==
  \A r \in Requests :
    LookedUp(r) =>
      \/ /\ requests'[r].existing = Undefined
         /\ requests'[r].pc = "done"
         /\ requests'[r].reply.status = 500
         /\ requests'[r].ops = requests[r].ops
      \/ /\ requests'[r].existing # Undefined
         /\ requests'[r].existing = Null <=> OwnDocument(r) = Null

\* The documents of a user change only by the write of a request with that
\* user's token, and no document of another id than that of its path changes
\* or goes
WritesOwnDocument ==
  \A userId \in {k.uid : k \in KnownTokens} :
    DocsOf(firestore', userId) # DocsOf(firestore, userId) =>
      \E r \in Requests :
        /\ requests[r].pc = "writing" /\ requests'[r].pc = "done"
        /\ TokenUid(r) = userId
        /\ \A doc \in DocsOf(firestore, userId) :
             doc.id # requests[r].id => doc \in firestore'

\* An answered PUT with a verified token
AnsweredPut(r) ==
  Verified(r) /\ Done(r) /\ requests[r].method = "PUT"

BodyWithoutFields(body) == body = Undefined \/ UpdateData(body) = {}

\* C30 as stated: storage calls carry the uid of the verified token, a PUT
\* or DELETE on an id absent from the user's collection gets 404 without a
\* write, and a PUT whose body has none of the four fields gets 400 without
\* a write.
C30_AsStated ==
  /\ [](/\ OwnCollectionOnly /\ AbsentGives404
        /\ \A r \in Requests :
             AnsweredPut(r) /\ BodyWithoutFields(requests[r].body) =>
               requests[r].reply.status = 400 /\ ~Wrote(r))
  /\ [][ReadsOwnDocument /\ LookupInOwnCollection /\ WritesOwnDocument]_vars

\* C30 amended: as stated, but the PUT whose body is an object with none of
\* the four fields gets 400 only if the id is in the user's collection (404
\* otherwise), a PUT without a body gets 500 before any storage call, and a
\* lookup that is not answered gets 500; none of them writes.
C30_OwnCollection ==
  /\ [](/\ OwnCollectionOnly /\ AbsentGives404
        /\ \A r \in Requests :
             AnsweredPut(r) /\ BodyWithoutFields(requests[r].body) =>
               /\ ~Wrote(r)
               /\ requests[r].reply.status
                    = IF requests[r].body = Undefined
                         \/ requests[r].existing = Undefined THEN 500
                      ELSE IF requests[r].existing = Null THEN 404 ELSE 400
               /\ requests[r].body = Undefined => requests[r].ops = <<>>)
  /\ [][ReadsOwnDocument /\ LookupAnsweredInOwnCollection
        /\ WritesOwnDocument]_vars

\* alice's PUT with a field on d2, which only bob has, got 404 and bob's
\* PUT of {} on his d1 got 400; no document changed
C30_Witness ==
  \E r1, r2 \in Requests :
    /\ AnsweredPut(r1) /\ TokenUid(r1) = "alice" /\ requests[r1].id = "d2"
    /\ ~BodyWithoutFields(requests[r1].body)
    /\ requests[r1].reply.status = 404
    /\ AnsweredPut(r2) /\ TokenUid(r2) = "bob" /\ requests[r2].id = "d1"
    /\ requests[r2].body = NoFields
    /\ requests[r2].reply.status = 400
    /\ firestore = InitialDocuments

====
